---------------------------- MODULE Spec2Model ----------------------------
(***************************************************************************)
(* State-machine model of ssl_slave, the privilege-separated TLS relay of  *)
(* src/src/filecopy.c (lines 419-1109): main's startup, the libevent       *)
(* callbacks, the connection registry and the final cleanup.               *)
(*                                                                         *)
(* Every libevent callback runs to completion on the single event-loop     *)
(* thread, so each callback is one action.  A handler is written as an     *)
(* operator from "heap" records to heap records: a heap holds the registry,*)
(* the struct conn of every connection, the allocation status of each      *)
(* connection, the resolver's pending callbacks, the per-connection        *)
(* history, and the list of library calls and assignments the running      *)
(* callback has made so far (trace).                                       *)
(***************************************************************************)
EXTENDS Integers, Sequences, FiniteSets, TLC

(* Bounds of the model. *)
MaxConns == 2
SizeofCf == 2
BUFFER_LEN == 2      \* size of pipe_cb's buffer
MaxBytes == 3        \* bytes that arrive on one transport
MaxNodes == 3        \* addresses malloc hands out for struct conn
MaxStr == 2          \* length of a host name or address string
MaxAnswers == 2      \* answers in a resolver reply
MaxSq == 3           \* addresses mush_malloc hands out for struct squeue
MaxTime == 2         \* last value of the clock (now_msecs)
MaxDelay == 1        \* largest delay a registration asks for
MaxPages == 2        \* addresses posix_memalign hands out for slab pages
ItemsPerPage == 2    \* objects on a page of the slab that is allocated from
MaxLive == 3         \* objects a caller holds at a time
MaxThreshold == 2    \* the SLAB_HINTLESS_THRESHOLD that is set, besides 0
MaxSize == 40        \* largest item_size asked of slab_create
MaxTokens == 2       \* names in a list of warnings

(* enum conn_state *)
C_SSL_CONNECTING == 0
C_HOSTNAME_LOOKUP == 1
C_LOCAL_CONNECTING == 2
C_ESTABLISHED == 3
C_SHUTTINGDOWN == 4

(* Exit statuses of main, and the status of a process killed by a fault. *)
EXIT_SUCCESS == 0
EXIT_FAILURE == 1
KilledStatus == 128 + 11

(* Signal numbers, and the event flag libevent passes as `what' to the     *)
(* callback of a signal event (the signal number is passed as `fd').       *)
SIGUSR1 == 10
SIGTERM == 15
EV_SIGNAL == 8

Conn == 1..MaxConns

VARIABLES
  pc,           \* where main is: start, ssl_init, setup, loop, cleanup, exited
  loop_end,     \* how the loop was told to end: none, loopexit, loopbreak
  status,       \* exit status of the process, -1 while it runs
  cf_read,      \* read(0, &cf, sizeof cf) returned exactly sizeof cf
  ssl_ctx,      \* ssl_init succeeded: the TLS context exists
  listener,     \* ssl_listener is registered with main_loop
  watcher,      \* parent-death detector registered: none, signal, kqueue, poll
  parent_pid,   \* the global parent_pid
  ppid,         \* what getppid() returns now
  nalloc,       \* number of alloc_conn calls so far
  connections,  \* the registry: the list headed by `connections'
  conn,         \* struct conn of each connection
  mem,          \* unalloc, live or freed, per connection
  dns,          \* resolver callback pending with this connection as data
  hist,         \* per-connection history of a live connection
  resolver,     \* the evdns base exists (evdns_base_new .. evdns_base_free)
  trace,        \* what the last callback did, in order
  relay,        \* one ESTABLISHED connection seen at the level of bytes
  reg,          \* the registry seen at the level of its next/prev pointers
  line,         \* one call of local_connected seen at the level of characters
  look,         \* one call of address_resolved with all its arguments
  pipe,         \* one call of pipe_cb with any transport slots and outcomes
  sq,           \* the system queue of timer.c, the clock and the last call
  slab,         \* one slab of mymalloc.c: its pages, their objects, the last call
  warn          \* one call of parse_warnings and of do_warnings

slavevars == <<pc, loop_end, status, cf_read, ssl_ctx, listener, watcher, parent_pid,
               ppid, nalloc, connections, conn, mem, dns, hist, resolver, trace>>

(* The variables of the closer views; the actions of the process as a      *)
(* whole leave them alone.                                                 *)
viewvars == <<relay, reg, line, look, pipe, sq, slab, warn>>

vars == <<slavevars, viewvars>>

heapvars == <<connections, conn, mem, dns, hist, resolver>>

(* malloc without the memset: a struct whose resolver_req is not NULL. *)
alloc_conn_no_memset ==
  [state |-> C_SSL_CONNECTING, remote_host |-> "NULL", remote_ip |-> "NULL",
   local_bev |-> "NULL", remote_bev |-> "NULL", resolver_req |-> TRUE,
   local_rd |-> FALSE, remote_rd |-> FALSE]

(* alloc_conn: malloc and memset to zero. *)
alloc_conn ==
  [state |-> C_SSL_CONNECTING, remote_host |-> "NULL", remote_ip |-> "NULL",
   local_bev |-> "NULL", remote_bev |-> "NULL", resolver_req |-> FALSE,
   local_rd |-> FALSE, remote_rd |-> FALSE]

NoHist == [first_local |-> "none", hs_lines |-> 0, ever |-> {}]

(* One entry of trace. *)
Op(op, c, side) == [op |-> op, c |-> c, side |-> side, from |-> -1, to |-> -1, ever |-> {}]
StateOp(c, from, to) ==
  [op |-> "state", c |-> c, side |-> "", from |-> from, to |-> to, ever |-> {}]
FreeOp(c, st, ever) ==
  [op |-> "free", c |-> c, side |-> "", from |-> st, to |-> -1, ever |-> ever]

Emit(h, op) == [h EXCEPT !.trace = Append(@, op)]

Cur ==
  [connections |-> connections, conn |-> conn, mem |-> mem, dns |-> dns,
   hist |-> hist, resolver |-> resolver, trace |-> <<>>]

Commit(h) ==
  /\ connections' = h.connections
  /\ conn' = h.conn
  /\ mem' = h.mem
  /\ dns' = h.dns
  /\ hist' = h.hist
  /\ resolver' = h.resolver
  /\ trace' = h.trace

InRegistry(h, c) == \E i \in DOMAIN h.connections : h.connections[i] = c

SetState(h, c, s) ==
  Emit([h EXCEPT !.conn[c].state = s], StateOp(c, h.conn[c].state, s))

(***************************************************************************)
(* The registry and destruction.                                           *)
(***************************************************************************)

(* An unlinking that drops the head of the list whatever c is. *)
UnlinkHead(list, c) == Tail(list)

(* The list without c, the others in their order (the unlinking of         *)
(* delete_conn).                                                           *)
Unlink(list, c) == SelectSeq(list, LAMBDA x : x # c)

(* evdns_cancel_request, as free_conn uses it.  On a live resolver the     *)
(* pending request is cancelled: libevent then still runs the completion   *)
(* callback once, with DNS_ERR_CANCEL (the case address_resolved tests     *)
(* for).  On a resolver that evdns_base_free has already released the call *)
(* works on freed memory.                                                  *)
evdns_cancel_request(h, c) ==
  IF h.resolver
    THEN Emit([h EXCEPT !.dns[c] = IF @ = "inflight" THEN "cancelled" ELSE @],
              Op("evdns_cancel_request", c, ""))
    ELSE Emit(h, Op("cancel_on_freed_resolver", c, ""))

free_conn(h, c) ==
  LET r == h.conn[c]
      h1 == IF r.local_bev # "NULL"
              THEN Emit(h, Op("bufferevent_free", c, "local")) ELSE h
      h2 == IF r.remote_bev # "NULL"
              THEN Emit(h1, Op("bufferevent_free", c, "remote")) ELSE h1
      h3 == IF r.resolver_req THEN evdns_cancel_request(h2, c) ELSE h2
      h4 == IF h.mem[c] = "live" THEN h3 ELSE Emit(h3, Op("double_free", c, ""))
  IN  Emit([h4 EXCEPT !.conn[c] = alloc_conn, !.mem[c] = "freed", !.hist[c] = NoHist],
           FreeOp(c, r.state, h.hist[c].ever))

delete_conn(h, c) ==
  IF InRegistry(h, c)
    THEN free_conn([h EXCEPT !.connections = Unlink(@, c)], c)
    ELSE h

(***************************************************************************)
(* The libevent callbacks.                                                 *)
(***************************************************************************)

(* evdns_getnameinfo returns a request handle for the two known address    *)
(* families and NULL otherwise.                                            *)
evdns_getnameinfo(family) == family \in {"AF_INET", "AF_INET6"}

(* What the first write to a connection's local transport was. *)
FirstWrite(first, what) == IF first = "none" THEN what ELSE first

(* pipe_cb deleting the connection when it cannot pass the bytes on. *)
pipe_cb_or_delete(h, c, from, len, written) ==
  LET to == IF from = "local" THEN "remote" ELSE "local"
      to_bev == IF from = "local" THEN h.conn[c].remote_bev ELSE h.conn[c].local_bev
      h1 == Emit(h, Op("bufferevent_read", c, from))
  IN  IF to_bev # "NULL" /\ len > 0 /\ written
        THEN Emit(h1, Op("bufferevent_write", c, to))
        ELSE delete_conn(h1, c)

pipe_cb(h, c, from, len, written) ==
  LET to == IF from = "local" THEN "remote" ELSE "local"
      to_bev == IF from = "local" THEN h.conn[c].remote_bev ELSE h.conn[c].local_bev
      h1 == Emit(h, Op("bufferevent_read", c, from))
  IN  IF to_bev # "NULL" /\ len > 0
        THEN LET h2 == Emit(h1, Op("bufferevent_write", c, to))
             IN  IF written /\ to = "local"
                   THEN [h2 EXCEPT !.hist[c].first_local = FirstWrite(@, "DATA")]
                   ELSE h2
        ELSE h1

(* local_connected without its send_with_creds call. *)
SendNoHostid(h, c) == h

(* send_with_creds of the line "<ip>^<host>\r\n" on the local socket. *)
SendHostid(h, c) ==
  Emit([h EXCEPT !.hist[c].hs_lines = @ + 1,
                 !.hist[c].first_local = FirstWrite(@, "HS")],
       Op("send_with_creds", c, "local"))

(* Which transports get pipe_cb as read callback and EV_READ enabled when  *)
(* the local connection is up.                                             *)
PipeSides == {"local", "remote"}

local_connected(h, c, sent) ==
  LET h1 == [h EXCEPT !.conn[c].local_bev = "open",
                      !.conn[c].local_rd = "local" \in PipeSides,
                      !.conn[c].remote_rd = "remote" \in PipeSides]
      h2 == SetState([h1 EXCEPT !.hist[c].ever = @ \cup {"established"}],
                     c, C_ESTABLISHED)
  IN  IF sent THEN SendHostid(h2, c) ELSE delete_conn(h2, c)

(* The record types a resolver reply can carry. *)
DnsTypes == {"DNS_PTR", "DNS_IPv4_A"}

(* The fallback taken on the result code alone. *)
LookupFailedResultOnly(result, type, count, addresses) == result # "DNS_ERR_NONE"

(* The test of address_resolved for using the numeric address as the host  *)
(* name too.                                                               *)
LookupFailed(result, type, count, addresses) ==
  result # "DNS_ERR_NONE" \/ ~addresses \/ type # "DNS_PTR" \/ count = 0

(* The fields address_resolved stores to when it does not return early. *)
ResolvedFields == <<"remote_host", "remote_ip", "state", "local_bev">>

RECURSIVE WriteFreed(_, _, _, _)
WriteFreed(h, c, fields, i) ==
  IF i > Len(fields) THEN h
  ELSE WriteFreed(Emit(h, Op("write_freed", c, fields[i])), c, fields, i + 1)

address_resolved(h, c, result, type, count, addresses) ==
  IF h.mem[c] # "live"
    THEN (* data points to a struct conn that free_conn has released *)
         LET h1 == Emit(h, Op("write_freed", c, "resolver_req"))
         IN  IF result = "DNS_ERR_CANCEL" THEN h1
             ELSE WriteFreed(h1, c, ResolvedFields, 1)
    ELSE LET h1 == [h EXCEPT !.conn[c].resolver_req = FALSE]
         IN  IF result = "DNS_ERR_CANCEL"
               THEN h1
               ELSE LET h2 == [h1 EXCEPT
                                 !.conn[c].remote_host =
                                    IF LookupFailed(result, type, count, addresses)
                                      THEN "ip" ELSE "host",
                                 !.conn[c].remote_ip = "ip"]
                        h3 == SetState(h2, c, C_LOCAL_CONNECTING)
                    IN  Emit([h3 EXCEPT !.conn[c].local_bev = "connecting",
                                        !.hist[c].ever = @ \cup {"local"}],
                             Op("bufferevent_socket_new", c, "local"))

(* ssl_connected going to LOCAL_CONNECTING without a lookup. *)
ssl_connected_no_lookup(h, c, family) ==
  SetState(Emit([h EXCEPT !.conn[c].remote_bev = "open"],
                Op("clear_timeouts", c, "remote")),
           c, C_LOCAL_CONNECTING)

ssl_connected(h, c, family) ==
  LET h1 == Emit([h EXCEPT !.conn[c].remote_bev = "open"],
                 Op("clear_timeouts", c, "remote"))
      h2 == SetState(h1, c, C_HOSTNAME_LOOKUP)
  IN  IF evdns_getnameinfo(family)
        THEN Emit([h2 EXCEPT !.conn[c].resolver_req = TRUE,
                             !.dns[c] = "inflight",
                             !.hist[c].ever = @ \cup {"req"}],
                  Op("evdns_base_resolve_reverse", c, ""))
        ELSE [h2 EXCEPT !.conn[c].resolver_req = FALSE]

(* The BEV_EVENT_TIMEOUT branch taken in every state but ESTABLISHED. *)
TimedOutUnlessEstablished(st) == st # C_ESTABLISHED

(* The BEV_EVENT_TIMEOUT branch taken in ESTABLISHED too, as for EOF. *)
TimedOutOrEstablished(st) == st \in {C_SSL_CONNECTING, C_ESTABLISHED}

(* The BEV_EVENT_TIMEOUT branch taken during the lookup too. *)
TimedOutInLookup(st) == st \in {C_SSL_CONNECTING, C_HOSTNAME_LOOKUP}

(* The state test of the BEV_EVENT_TIMEOUT branch. *)
HandshakeTimedOut(st) == st = C_SSL_CONNECTING

(* The remote transport freed and the connection deleted in the state it   *)
(* has.                                                                    *)
DropRemoteKeepState(h, c) ==
  delete_conn(Emit(Emit([h EXCEPT !.conn[c].remote_bev = "NULL",
                                  !.conn[c].remote_rd = FALSE],
                        Op("bufferevent_disable", c, "remote")),
                   Op("bufferevent_free", c, "remote")), c)

(* The tail both "remote side went away" branches share: the remote        *)
(* transport is disabled and freed, the local one flushed if present.      *)
DropRemote(h, c) ==
  LET h1 == Emit(Emit(h, Op("bufferevent_disable", c, "remote")),
                 Op("bufferevent_free", c, "remote"))
      h2 == SetState([h1 EXCEPT !.conn[c].remote_bev = "NULL",
                                !.conn[c].remote_rd = FALSE], c, C_SHUTTINGDOWN)
      h3 == IF h2.conn[c].local_bev # "NULL"
              THEN Emit(Emit([h2 EXCEPT !.conn[c].local_rd = FALSE],
                             Op("disable_read", c, "local")),
                        Op("bufferevent_flush", c, "local"))
              ELSE h2
  IN  delete_conn(h3, c)

(* The "local side went away" branch without the SSL_shutdown call. *)
DropLocalNoShutdown(h, c) ==
  LET h1 == Emit(Emit(h, Op("bufferevent_disable", c, "local")),
                 Op("bufferevent_free", c, "local"))
      h2 == SetState([h1 EXCEPT !.conn[c].local_bev = "NULL",
                                !.conn[c].local_rd = FALSE], c, C_SHUTTINGDOWN)
      h3 == IF h2.conn[c].remote_bev # "NULL"
              THEN Emit(Emit([h2 EXCEPT !.conn[c].remote_rd = FALSE],
                             Op("disable_read", c, "remote")),
                        Op("bufferevent_flush", c, "remote"))
              ELSE h2
  IN  delete_conn(h3, c)

DropLocal(h, c) ==
  LET h1 == Emit(Emit(h, Op("bufferevent_disable", c, "local")),
                 Op("bufferevent_free", c, "local"))
      h2 == SetState([h1 EXCEPT !.conn[c].local_bev = "NULL",
                                !.conn[c].local_rd = FALSE], c, C_SHUTTINGDOWN)
      h3 == IF h2.conn[c].remote_bev # "NULL"
              THEN Emit(Emit(Emit([h2 EXCEPT !.conn[c].remote_rd = FALSE],
                                  Op("disable_read", c, "remote")),
                             Op("bufferevent_flush", c, "remote")),
                        Op("SSL_shutdown", c, "remote"))
              ELSE h2
  IN  delete_conn(h3, c)

ssl_event_cb(h, c, bev, e, family, sent) ==
  IF e = "CONNECTED"
    THEN IF bev = "local" THEN local_connected(h, c, sent)
                          ELSE ssl_connected(h, c, family)
    ELSE IF e = "TIMEOUT"
      THEN IF HandshakeTimedOut(h.conn[c].state)
             THEN DropRemote(Emit(h, Op("handshake_timeout", c, "remote")), c)
             ELSE Emit(h, Op("timeout_ignored", c, ""))
      ELSE IF bev = "local" THEN DropLocal(h, c) ELSE DropRemote(h, c)

(* new_ssl_conn_cb with pipe_cb reading the remote transport from the      *)
(* accept on.                                                              *)
new_ssl_conn_cb_reading(h, c, r) ==
  LET h1 == [h EXCEPT !.mem[c] = "live", !.conn[c] = alloc_conn,
                      !.hist[c] = NoHist,
                      !.connections = <<c>> \o @]
      h2 == Emit(h1, Op("alloc_conn", c, ""))
  IN  IF r = "accepted"
        THEN Emit([h2 EXCEPT !.conn[c].remote_bev = "handshaking",
                             !.conn[c].remote_rd = TRUE],
                  Op("set_handshake_timeout", c, "remote"))
        ELSE delete_conn(h2, c)

(* new_ssl_conn_cb up to and including the accept; r is the outcome:       *)
(* accept_failed, no_bufferevent or accepted.                              *)
new_ssl_conn_cb(h, c, r) ==
  LET h1 == [h EXCEPT !.mem[c] = "live", !.conn[c] = alloc_conn,
                      !.hist[c] = NoHist,
                      !.connections = <<c>> \o @]
      h2 == Emit(h1, Op("alloc_conn", c, ""))
  IN  IF r = "accepted"
        THEN Emit([h2 EXCEPT !.conn[c].remote_bev = "handshaking"],
                  Op("set_handshake_timeout", c, "remote"))
        ELSE delete_conn(h2, c)

RECURSIVE close_from(_, _, _)
close_from(h, i, flush_local) ==
  IF i > Len(h.connections)
    THEN h
    ELSE LET c == h.connections[i]
             h1 == SetState(h, c, C_SHUTTINGDOWN)
             h2 == IF h1.conn[c].remote_bev # "NULL"
                     THEN Emit(Emit([h1 EXCEPT !.conn[c].remote_rd = FALSE],
                                    Op("disable_read", c, "remote")),
                               Op("bufferevent_flush", c, "remote"))
                     ELSE h1
             h3 == IF flush_local /\ h2.conn[c].local_bev # "NULL"
                     THEN Emit(Emit([h2 EXCEPT !.conn[c].local_rd = FALSE],
                                    Op("disable_read", c, "local")),
                               Op("bufferevent_flush", c, "local"))
                     ELSE h2
         IN  close_from(h3, i + 1, flush_local)

close_connections(h, flush_local) == close_from(h, 1, flush_local)

(* flush_local as shutdown_cb computes it from its parameter `what'. *)
ShutdownFlushLocal(what) ==
  IF what = SIGTERM THEN TRUE ELSE IF what = SIGUSR1 THEN FALSE ELSE TRUE

(* The `what' argument libevent gives the callback of a signal event: the  *)
(* event flags that fired; the signal number is the `fd' argument.         *)
SignalWhat(sig) == EV_SIGNAL

(* The cleanup loop of main after event_base_dispatch has returned and the *)
(* resolver has been freed: SSL_shutdown and free_conn for every list      *)
(* element.  free_conn's cancel then works on the freed resolver; `fault'  *)
(* says whether that access kills the process, and the loop stops there.   *)
RECURSIVE final_free(_, _, _)
final_free(h, i, fault) ==
  IF i > Len(h.connections)
    THEN h
    ELSE LET c == h.connections[i]
             h1 == IF h.conn[c].remote_bev # "NULL"
                     THEN Emit(h, Op("SSL_shutdown", c, "remote")) ELSE h
         IN  IF fault /\ h.conn[c].resolver_req
               THEN Emit(Emit(h1, Op("cancel_on_freed_resolver", c, "")),
                         Op("fault", c, ""))
               ELSE final_free(free_conn(h1, c), i + 1, fault)

UsedFreedResolver(h) ==
  \E i \in DOMAIN h.trace : h.trace[i].op = "cancel_on_freed_resolver"

(***************************************************************************)
(* The relay at the level of bytes: one ESTABLISHED connection, both of    *)
(* its transports present.  The k-th byte that arrives on a transport is a *)
(* value of its own, so that order and origin can be told.                 *)
(***************************************************************************)

Sides == {"local", "remote"}

Byte(side, k) == IF side = "local" THEN k ELSE 100 + k

Range(seq) == {seq[i] : i \in DOMAIN seq}

Min(a, b) == IF a < b THEN a ELSE b

RelayStart ==
  [input |-> [s \in Sides |-> <<>>],       \* input evbuffer of the bufferevent
   output |-> [s \in Sides |-> <<>>],      \* what bufferevent_write has queued on it
   readable |-> [s \in Sides |-> FALSE],   \* its read callback is due
   arrived |-> [s \in Sides |-> 0],        \* bytes that have arrived on it
   taken |-> [s \in Sides |-> <<>>],       \* what bufferevent_read has handed out
   lost |-> [s \in Sides |-> {}]]          \* bytes of the chunks whose write failed

(* bufferevent_read(bev, buff, size): removes up to size bytes from the    *)
(* front of the input buffer and returns them.                             *)
bufferevent_read(buf, size) == SubSeq(buf, 1, Min(Len(buf), size))

Drain(buf, n) == SubSeq(buf, n + 1, Len(buf))

(* pipe_cb writing the bytes back to the transport they came from. *)
pipe_cb_echo(r, from, written) ==
  LET buff == bufferevent_read(r.input[from], BUFFER_LEN)
  IN  [r EXCEPT !.input[from] = Drain(@, Len(buff)),
                !.taken[from] = @ \o buff,
                !.output[from] = @ \o buff]

(* pipe_cb with its buffer: `written' is whether bufferevent_write         *)
(* succeeded.                                                              *)
pipe_cb_bytes(r, from, written) ==
  LET to == IF from = "local" THEN "remote" ELSE "local"
      buff == bufferevent_read(r.input[from], BUFFER_LEN)
      len == Len(buff)
      r1 == [r EXCEPT !.input[from] = Drain(@, len), !.taken[from] = @ \o buff]
  IN  IF len > 0
        THEN IF written
               THEN [r1 EXCEPT !.output[to] = @ \o buff]
               ELSE [r1 EXCEPT !.lost[from] = @ \cup Range(buff)]
        ELSE r1

(***************************************************************************)
(* The registry at the level of pointers: `connections', and the next and  *)
(* prev fields of struct conn.  0 is NULL.  free leaves the fields of the  *)
(* node as they were, and malloc may hand a freed address out again.       *)
(***************************************************************************)

Node == 1..MaxNodes

RegStart ==
  [head |-> 0,
   next |-> [n \in Node |-> 0],
   prev |-> [n \in Node |-> 0],
   alive |-> [n \in Node |-> FALSE],
   list |-> <<>>,               \* the registry as the process as a whole sees it
   bad |-> {},                  \* double frees and uses of freed nodes so far
   last |-> [op |-> "none", c |-> 0, before |-> <<>>,
             alive |-> [n \in Node |-> FALSE]]]

(* The nodes reached from n by following next, at most k of them. *)
RECURSIVE WalkFrom(_, _, _)
WalkFrom(r, n, k) ==
  IF n = 0 \/ k = 0 THEN <<>> ELSE <<n>> \o WalkFrom(r, r.next[n], k - 1)

Walk(r) == WalkFrom(r, r.head, MaxNodes + 1)

(* A store through a pointer: storing into a freed node is recorded. *)
SetNext(r, n, v) ==
  [r EXCEPT !.next[n] = v,
            !.bad = IF r.alive[n] THEN @ ELSE @ \cup {"write_freed"}]

SetPrev(r, n, v) ==
  [r EXCEPT !.prev[n] = v,
            !.bad = IF r.alive[n] THEN @ ELSE @ \cup {"write_freed"}]

(* A linking at the head that leaves the prev field of the old head NULL. *)
link_conn_no_prev(r, c) ==
  LET r1 == [r EXCEPT !.alive[c] = TRUE, !.next[c] = 0, !.prev[c] = 0]
      r3 == SetNext(r1, c, r1.head)
  IN  [r3 EXCEPT !.head = c, !.list = <<c>> \o @]

(* new_ssl_conn_cb: alloc_conn and the linking at the head. *)
link_conn(r, c) ==
  LET r1 == [r EXCEPT !.alive[c] = TRUE, !.next[c] = 0, !.prev[c] = 0]
      r2 == IF r1.head # 0 THEN SetPrev(r1, r1.head, c) ELSE r1
      r3 == SetNext(r2, c, r2.head)
  IN  [r3 EXCEPT !.head = c, !.list = <<c>> \o @]

(* The unlinking of delete_conn that does not repair the prev field of the *)
(* successor.                                                              *)
unlink_next_only(r, curr) ==
  LET nxt == r.next[curr]
  IN  IF r.prev[curr] # 0
        THEN SetNext(r, r.prev[curr], nxt)
        ELSE [r EXCEPT !.head = nxt]

(* The unlinking of delete_conn, for the node curr it has found. *)
unlink_conn(r, curr) ==
  LET nxt == r.next[curr]
  IN  IF r.prev[curr] # 0
        THEN LET r1 == SetNext(r, r.prev[curr], nxt)
             IN  IF nxt # 0 THEN SetPrev(r1, nxt, r.prev[curr]) ELSE r1
        ELSE LET r1 == [r EXCEPT !.head = nxt]
             IN  IF r1.head # 0 THEN SetPrev(r1, r1.head, 0) ELSE r1

(* free(c) of free_conn. *)
free_node(r, c) ==
  [r EXCEPT !.alive[c] = FALSE,
            !.bad = IF r.alive[c] THEN @ ELSE @ \cup {"double_free"}]

(* The loop of delete_conn from curr on; k bounds the walk of a list that  *)
(* has become cyclic.                                                      *)
RECURSIVE delete_from(_, _, _, _)
delete_from(r, curr, c, k) ==
  IF curr = 0 \/ k = 0 THEN r
  ELSE LET r0 == IF r.alive[curr] THEN r
                 ELSE [r EXCEPT !.bad = @ \cup {"read_freed"}]
       IN  IF curr = c
             THEN free_node(unlink_conn(r0, curr), c)
             ELSE delete_from(r0, r0.next[curr], c, k - 1)

delete_conn_list(r, c) ==
  LET r1 == delete_from(r, r.head, c, MaxNodes + 1)
  IN  [r1 EXCEPT !.list = IF \E i \in DOMAIN @ : @[i] = c THEN Unlink(@, c) ELSE @]

(***************************************************************************)
(* local_connected at the level of characters: the handshake line.  A C    *)
(* string is the sequence of its characters; the terminating NUL byte is   *)
(* written "NUL".                                                          *)
(***************************************************************************)

Alphabet == {"1", "h"}

Str == UNION {[1..k -> Alphabet] : k \in 0..MaxStr}

strlen(str) == Len(str)

(* snprintf(buf, size, "%s^%s\r\n", ip, host): what buf holds afterwards,  *)
(* at most size - 1 characters and the terminating NUL.                    *)
snprintf(size, ip, host) ==
  LET full == ip \o <<"^">> \o host \o <<"\r", "\n">>
  IN  SubSeq(full, 1, Min(Len(full), size - 1)) \o <<"NUL">>

(* The length without the "\n" of the format. *)
hostid_len_short(ip, host) == strlen(host) + strlen(ip) + 2

hostid_len(ip, host) == strlen(host) + strlen(ip) + 3

LineStart ==
  [ip |-> <<"1">>, host |-> <<>>, called |-> FALSE, len |-> 0, ret |-> 0,
   wire |-> <<>>, deleted |-> FALSE]

(* send_with_creds(fd, buf, len): the len bytes at buf are written to the  *)
(* socket and len is returned, or nothing is written and -1 is returned.   *)
send_with_creds(buf, len, ok) ==
  IF ok THEN [ret |-> len, sent |-> SubSeq(buf, 1, len)]
        ELSE [ret |-> -1, sent |-> <<>>]

(* local_connected from the computation of len on. *)
local_connected_line(l, ok) ==
  LET len == hostid_len(l.ip, l.host)
      hostid == snprintf(len + 1, l.ip, l.host)
      r == send_with_creds(hostid, len, ok)
  IN  [l EXCEPT !.called = TRUE, !.len = len, !.ret = r.ret,
                !.wire = r.sent,
                !.deleted = r.ret < 0]

(***************************************************************************)
(* address_resolved with every argument it tests, on a heap that holds one *)
(* connection whose lookup is completing.                                  *)
(***************************************************************************)

DnsResults == {"DNS_ERR_NONE", "DNS_ERR_TIMEOUT", "DNS_ERR_CANCEL"}

LookHeap(st) ==
  [connections |-> <<1>>,
   conn |-> [c \in Conn |-> IF c = 1
                              THEN [alloc_conn EXCEPT !.state = st,
                                                      !.remote_bev = "open",
                                                      !.resolver_req = TRUE]
                              ELSE alloc_conn],
   mem |-> [c \in Conn |-> IF c = 1 THEN "live" ELSE "unalloc"],
   dns |-> [c \in Conn |-> "none"],
   hist |-> [c \in Conn |-> IF c = 1 THEN [NoHist EXCEPT !.ever = {"req"}] ELSE NoHist],
   resolver |-> TRUE,
   trace |-> <<>>]

LookStart ==
  [result |-> "DNS_ERR_NONE", type |-> "DNS_PTR", count |-> 1, addresses |-> TRUE,
   state |-> C_HOSTNAME_LOOKUP, called |-> FALSE, h |-> LookHeap(C_HOSTNAME_LOOKUP)]

(***************************************************************************)
(* pipe_cb for any contents of the two transport slots of the connection   *)
(* it is called for, any read length and either outcome of the write, on   *)
(* a heap that may hold a second connection.                               *)
(***************************************************************************)

(* The second connection: none, one that is handshaking, one that relays. *)
Neighbours == {"none", "handshaking", "relaying"}

Relaying ==
  [alloc_conn EXCEPT !.state = C_ESTABLISHED, !.remote_host = "host",
                     !.remote_ip = "ip", !.local_bev = "open",
                     !.remote_bev = "open", !.local_rd = TRUE, !.remote_rd = TRUE]

WasEstablished ==
  [first_local |-> "HS", hs_lines |-> 1, ever |-> {"req", "local", "established"}]

PipeHeap(st, from, dest, other) ==
  [connections |-> IF other = "none" THEN <<1>> ELSE <<2, 1>>,
   conn |-> [c \in Conn |->
               IF c = 1
                 THEN [Relaying EXCEPT
                         !.state = st,
                         !.local_bev = IF from = "local" THEN "open" ELSE dest,
                         !.remote_bev = IF from = "remote" THEN "open" ELSE dest]
               ELSE IF c = 2 /\ other = "relaying" THEN Relaying
               ELSE IF c = 2 /\ other = "handshaking"
                 THEN [alloc_conn EXCEPT !.remote_bev = "handshaking"]
               ELSE alloc_conn],
   mem |-> [c \in Conn |-> IF c = 1 \/ (c = 2 /\ other # "none")
                             THEN "live" ELSE "unalloc"],
   dns |-> [c \in Conn |-> "none"],
   hist |-> [c \in Conn |-> IF c = 1 \/ (c = 2 /\ other = "relaying")
                              THEN WasEstablished ELSE NoHist],
   resolver |-> TRUE,
   trace |-> <<>>]

PipeStart ==
  [state |-> C_ESTABLISHED, from |-> "local", dest |-> "open", other |-> "none",
   len |-> 0, written |-> TRUE, called |-> FALSE,
   h |-> PipeHeap(C_ESTABLISHED, "local", "open", "none")]

(***************************************************************************)
(* The system queue of timer.c: the list headed by sq_head, linked by      *)
(* next.  0 is NULL.  uint64_t is scaled down to the residues of           *)
(* Uint64Span.                                                             *)
(***************************************************************************)

SqNode == 1..MaxSq

Uint64Span == 16

U64(n) == n % Uint64Span

(* What is kept of the last call: its argument (the entry it registered or *)
(* ran), where in the queue that entry was, its result, and for sq_run_one *)
(* the time of the entry, whether the entry was still linked when its      *)
(* function was called, what the function did and returned, and whether it *)
(* was sq_loop_fun.                                                        *)
NoCall ==
  [op |-> "none", p |-> 0, pos |-> 0, ret |-> 0, w |-> 0, linked |-> FALSE,
   cb |-> "none", r |-> FALSE, loop |-> FALSE]

SqStart ==
  [head |-> 0,
   next |-> [n \in SqNode |-> 0],
   when |-> [n \in SqNode |-> 0],
   fun |-> [n \in SqNode |-> "none"],
   msecs |-> [n \in SqNode |-> 0],     \* msecs of the struct sq_loop in data
   alive |-> [n \in SqNode |-> FALSE],
   now |-> 0,
   last |-> NoCall]

(* The entries reached from n by following next, at most k of them. *)
RECURSIVE SqWalkFrom(_, _, _)
SqWalkFrom(q, n, k) ==
  IF n = 0 \/ k = 0 THEN <<>> ELSE <<n>> \o SqWalkFrom(q, q.next[n], k - 1)

SqWalk(q) == SqWalkFrom(q, q.head, MaxSq + 1)

(* The place of sq in the queue, 0 if it is not in it. *)
RECURSIVE SqPosFrom(_, _, _, _)
SqPosFrom(q, n, sq_, i) ==
  IF n = 0 \/ i > MaxSq THEN 0
  ELSE IF n = sq_ THEN i
  ELSE SqPosFrom(q, q.next[n], sq_, i + 1)

SqPos(q, sq_) == SqPosFrom(q, q.head, sq_, 1)

(* A call that is about to be made on q. *)
SqCall(q, op, p) ==
  [NoCall EXCEPT !.op = op, !.p = p, !.pos = SqPos(q, p)]

(* mush_free of an entry.  What the freed memory holds is read by nobody,  *)
(* so it is kept as zeroes.                                                *)
sq_free(q, sq_) ==
  [q EXCEPT !.alive[sq_] = FALSE, !.when[sq_] = 0, !.fun[sq_] = "none",
            !.msecs[sq_] = 0, !.next[sq_] = 0]

(* The address mush_malloc returns for a new entry, if memory is left.     *)
(* The queue compares addresses for equality only, so the lowest free one  *)
(* stands for any of them.                                                 *)
SqMalloc(q) ==
  LET free == {x \in SqNode : ~q.alive[x]}
  IN  {x \in free : \A y \in free : x <= y}

(* The loop of sq_register: sq goes in front of the first entry after prev *)
(* whose `when' is greater, or at the end.                                 *)
RECURSIVE sq_insert(_, _, _, _)
sq_insert(q, sq_, prev, c) ==
  IF c = 0
    THEN [q EXCEPT !.next[prev] = sq_]
    ELSE IF q.when[c] > q.when[sq_]
      THEN [q EXCEPT !.next[sq_] = c, !.next[prev] = sq_]
      ELSE sq_insert(q, sq_, c, q.next[c])

(* The struct squeue sq_register fills in at the address a that            *)
(* mush_malloc returns.                                                    *)
sq_new(q, a, w, f, n) ==
  [q EXCEPT !.alive[a] = TRUE, !.when[a] = w, !.fun[a] = f, !.msecs[a] = n,
            !.next[a] = 0]

(* An insertion in front of the first entry whose `when' is greater or     *)
(* equal.                                                                  *)
sq_register_before_equal(q, a, w, f, n) ==
  LET q1 == sq_new(q, a, w, f, n)
      before == SelectSeq(SqWalk(q), LAMBDA x : q.when[x] < w)
      after == SelectSeq(SqWalk(q), LAMBDA x : q.when[x] >= w)
      q2 == IF after = <<>> THEN q1 ELSE [q1 EXCEPT !.next[a] = after[1]]
  IN  IF before = <<>> THEN [q2 EXCEPT !.head = a]
                       ELSE [q2 EXCEPT !.next[before[Len(before)]] = a]

(* sq_register(w, f, d, ev); n is the msecs of the struct sq_loop that d   *)
(* points to when f is sq_loop_fun.  The event name ev is copied into the  *)
(* entry and freed with it; it has no part in the queue.                   *)
sq_register(q, a, w, f, n) ==
  LET q1 == sq_new(q, a, w, f, n)
  IN  IF q1.head = 0
        THEN [q1 EXCEPT !.head = a]
        ELSE IF q1.when[q1.head] > w
          THEN [q1 EXCEPT !.next[a] = q1.head, !.head = a]
          ELSE sq_insert(q1, a, q1.head, q1.next[q1.head])

sq_register_in_msec(q, a, n, f, m) == sq_register(q, a, U64(q.now + n), f, m)

(* sq_register_loop_msec: the struct sq_loop and the first registration. *)
sq_register_loop_msec(q, a, n) == sq_register_in_msec(q, a, n, "sq_loop_fun", n)

(* sq_cancel that frees the entry without unlinking it. *)
sq_cancel_free_only(q, sq_) ==
  IF sq_ = 0 \/ ~\E i \in DOMAIN SqWalk(q) : SqWalk(q)[i] = sq_
    THEN q
    ELSE [q EXCEPT !.alive[sq_] = FALSE]

(* The loop of sq_cancel from tmp on. *)
RECURSIVE sq_cancel_from(_, _, _, _, _)
sq_cancel_from(q, sq_, tmp, prev, k) ==
  IF tmp = 0 \/ k = 0 THEN q
  ELSE IF tmp = sq_
    THEN LET q1 == IF prev # 0 THEN [q EXCEPT !.next[prev] = q.next[tmp]]
                               ELSE [q EXCEPT !.head = q.next[tmp]]
         IN  sq_free(q1, sq_)
    ELSE sq_cancel_from(q, sq_, q.next[tmp], tmp, k - 1)

sq_cancel(q, sq_) ==
  IF sq_ = 0 THEN q ELSE sq_cancel_from(q, sq_, q.head, 0, MaxSq + 1)

(* sq_run_one that calls the function of the head entry without testing   *)
(* its time.                                                               *)
SqDueAlways(q) == q.head # 0

(* The test of sq_run_one. *)
SqDue(q) == q.head # 0 /\ q.when[q.head] <= q.now

(* What the function of an entry does when it is called and what it        *)
(* returns: nothing, a registration (at the address a that mush_malloc     *)
(* returns), a cancellation of any pointer.                                *)
SqCallbacks(q) ==
  {[kind |-> "none", a |-> 0, n |-> 0, r |-> r] : r \in BOOLEAN}
    \cup {[kind |-> "register", a |-> a, n |-> n, r |-> r] :
            a \in SqMalloc(q), n \in 0..MaxDelay, r \in BOOLEAN}
    \cup {[kind |-> "cancel", a |-> a, n |-> 0, r |-> r] :
            a \in 0..MaxSq, r \in BOOLEAN}

(* The functions that make a difference to a call of sq_run_one: any when  *)
(* the head is due, and otherwise, as none is called, one.                 *)
SqFuns(q) ==
  IF SqDue(q) THEN SqCallbacks(q)
              ELSE {[kind |-> "none", a |-> 0, n |-> 0, r |-> FALSE]}

(* What the function does to the queue. *)
sq_fun_body(q, cb) ==
  IF cb.kind = "register" THEN sq_register_in_msec(q, cb.a, cb.n, "plain", 0)
  ELSE IF cb.kind = "cancel" THEN sq_cancel(q, cb.a)
  ELSE q

(* sq_loop_fun without the registration. *)
sq_loop_fun_once(q, torun, cb, la) == sq_fun_body(q, cb)

(* sq_loop_fun: the function of the loop, then the next registration, at   *)
(* the address la.                                                         *)
sq_loop_fun(q, torun, cb, la) ==
  sq_register_in_msec(sq_fun_body(q, cb), la, q.msecs[torun], "sq_loop_fun",
                      q.msecs[torun])

(* torun->fun(torun->data). *)
sq_call(q, torun, cb, la) ==
  IF q.fun[torun] = "sq_loop_fun" THEN sq_loop_fun(q, torun, cb, la)
                                  ELSE sq_fun_body(q, cb)

(* The addresses mush_malloc can return to sq_loop_fun after the function  *)
(* of the loop has run; 0 where no registration is made.                   *)
SqLoopAddrs(q, cb) ==
  IF q.head # 0 /\ q.fun[q.head] = "sq_loop_fun"
    THEN SqMalloc(sq_fun_body([q EXCEPT !.head = q.next[q.head]], cb))
    ELSE {0}

(* sq_run_one. *)
sq_run_one(q, cb, la) ==
  IF SqDue(q)
    THEN LET torun == q.head
             q1 == [q EXCEPT !.head = q.next[torun]]
             q2 == sq_call(q1, torun, cb, la)
             q3 == sq_free(q2, torun)
         IN  [q3 EXCEPT !.last = [SqCall(q, "sq_run_one", torun) EXCEPT
                                    !.w = q.when[torun], !.ret = 1,
                                    !.linked = SqPos(q1, torun) # 0,
                                    !.cb = cb.kind, !.r = cb.r,
                                    !.loop = q.fun[torun] = "sq_loop_fun"]]
    ELSE [q EXCEPT !.last = SqCall(q, "sq_run_one", 0)]

sq_msecs_till_next(q) ==
  IF q.head # 0 THEN U64(q.when[q.head] - q.now) ELSE 500

(***************************************************************************)
(* The slab allocator of mymalloc.c.  A page is named by its address, an   *)
(* object by its page and its place on it; `slabs' is the list of pages    *)
(* from sl->slabs on, and a page that is not allocated reads NoPage.       *)
(* `live' holds the objects the callers have been given and have not       *)
(* freed, `last' the last call with its object and, for slab_malloc,       *)
(* whether no caller held the object when it was returned.  Sizes are      *)
(* those of an LP64 build.                                                 *)
(***************************************************************************)

SizeofVoidP == 8

SizeofSlabPage == 32

PageBytes == 4096

(* A page size that gives ItemsPerPage objects of the size of a pointer. *)
SlabPage == SizeofSlabPage + ItemsPerPage * SizeofVoidP

SlabPageId == 1..MaxPages

NullObj == <<0, 0>>

NoPage == [nalloced |-> 0, nfree |-> 0, freelist |-> <<>>]

NoSlab == [name |-> "none"]

slab_create(pgsize, requested) ==
  LET offset == SizeofSlabPage + (SizeofSlabPage % 16)
      floor == IF requested < SizeofVoidP THEN SizeofVoidP ELSE requested
      item_size == floor + (floor % SizeofVoidP)
  IN  [name |-> "slab", requested |-> requested, pgsize |-> pgsize,
       data_offset |-> offset, item_size |-> item_size,
       items_per_page |-> IF item_size >= pgsize - offset
                            THEN 0 ELSE (pgsize - offset) \div item_size,
       fill_strategy |-> TRUE, keep_last_empty |-> FALSE,
       hintless_threshold |-> 0, slabs |-> <<>>,
       page |-> [p \in SlabPageId |-> NoPage], live |-> {},
       last |-> [op |-> "slab_create", obj |-> NullObj, fresh |-> FALSE]]

slab_set_opt(sl, opt, val) ==
  IF sl = NoSlab THEN sl
  ELSE IF opt = "SLAB_ALLOC_FIRST_FIT" THEN [sl EXCEPT !.fill_strategy = TRUE]
  ELSE IF opt = "SLAB_ALLOC_BEST_FIT" THEN [sl EXCEPT !.fill_strategy = FALSE]
  ELSE IF opt = "SLAB_ALWAYS_KEEP_A_PAGE" THEN [sl EXCEPT !.keep_last_empty = val # 0]
  ELSE IF opt = "SLAB_HINTLESS_THRESHOLD" THEN [sl EXCEPT !.hintless_threshold = val]
  ELSE sl

(* The new page: every object on the free list, the last one first. *)
slab_alloc_page(sl) ==
  [nalloced |-> 0, nfree |-> sl.items_per_page,
   freelist |-> [i \in 1..sl.items_per_page |-> sl.items_per_page + 1 - i]]

(* slab_alloc_obj that leaves the object on the free list. *)
slab_alloc_obj_no_pop(sl, where) ==
  IF sl.page[where].freelist = <<>>
    THEN [sl EXCEPT !.last.obj = NullObj]
    ELSE [sl EXCEPT !.page[where].nalloced = @ + 1,
                    !.page[where].nfree = @ - 1,
                    !.last.obj = <<where, Head(sl.page[where].freelist)>>]

slab_alloc_obj(sl, where) ==
  IF sl.page[where].freelist = <<>>
    THEN [sl EXCEPT !.last.obj = NullObj]
    ELSE [sl EXCEPT !.page[where].freelist = Tail(@),
                    !.page[where].nalloced = @ + 1,
                    !.page[where].nfree = @ - 1,
                    !.last.obj = <<where, Head(sl.page[where].freelist)>>]

(* last->next = slab_alloc_page(sl); return slab_alloc_obj(last->next),    *)
(* with the page at the address np.                                        *)
slab_grow(sl, np) ==
  slab_alloc_obj([sl EXCEPT !.slabs = Append(@, np),
                            !.page[np] = slab_alloc_page(sl)], np)

(* The best-fit loop of slab_malloc from the i-th page on: the page it     *)
(* ends with, 0 for none.                                                  *)
RECURSIVE slab_best(_, _, _, _)
slab_best(sl, i, best, best_free) ==
  IF i > Len(sl.slabs) THEN best
  ELSE LET page == sl.slabs[i]
           nfree == sl.page[page].nfree
       IN  IF nfree > sl.hintless_threshold /\ nfree < best_free
             THEN IF nfree = sl.hintless_threshold + 1
                    THEN page
                    ELSE slab_best(sl, i + 1, page, nfree)
             ELSE slab_best(sl, i + 1, best, best_free)

(* slab_malloc(sl, NULL) of a slab that has a page. *)
slab_malloc_hintless(sl, np) ==
  LET fits == {i \in DOMAIN sl.slabs :
                 sl.page[sl.slabs[i]].nfree > sl.hintless_threshold}
      best == slab_best(sl, 1, 0, sl.items_per_page + 1)
  IN  IF sl.fill_strategy /\ fits # {}
        THEN slab_alloc_obj(sl, sl.slabs[CHOOSE i \in fits : \A j \in fits : i <= j])
      ELSE IF ~sl.fill_strategy /\ best # 0 THEN slab_alloc_obj(sl, best)
      ELSE slab_grow(sl, np)

(* slab_malloc.  hint is the page whose objects the hint points among, 0   *)
(* for NULL; np is the address of the page posix_memalign would return.    *)
(* For objects that do not fit a page malloc returns an address that is    *)
(* not allocated.                                                          *)
slab_malloc(sl, hint, np) ==
  IF sl.items_per_page = 0
    THEN [sl EXCEPT !.last.obj =
            <<0, CHOOSE k \in 1..MaxLive :
                   /\ <<0, k>> \notin sl.live
                   /\ \A j \in 1..(k - 1) : <<0, j>> \in sl.live>>]
  ELSE IF sl.slabs = <<>> THEN slab_grow(sl, np)
  ELSE IF hint = 0 THEN slab_malloc_hintless(sl, np)
  ELSE IF \E i \in DOMAIN sl.slabs : sl.slabs[i] = hint
    THEN LET i == CHOOSE j \in DOMAIN sl.slabs : sl.slabs[j] = hint
         IN  IF sl.page[hint].nfree > 0 THEN slab_alloc_obj(sl, hint)
             ELSE IF sl.fill_strategy THEN slab_malloc_hintless(sl, np)
             ELSE IF i < Len(sl.slabs) /\ sl.page[sl.slabs[i + 1]].nfree > 0
               THEN slab_alloc_obj(sl, sl.slabs[i + 1])
             ELSE IF i > 1 /\ sl.page[sl.slabs[i - 1]].nfree > 0
               THEN slab_alloc_obj(sl, sl.slabs[i - 1])
             ELSE slab_malloc_hintless(sl, np)
  ELSE slab_grow(sl, np)

slab_free(sl, obj) ==
  IF sl.items_per_page = 0 THEN sl
  ELSE IF \E i \in DOMAIN sl.slabs : sl.slabs[i] = obj[1]
    THEN LET page == obj[1]
             s1 == [sl EXCEPT !.page[page].freelist = <<obj[2]>> \o @,
                              !.page[page].nalloced = @ - 1,
                              !.page[page].nfree = @ + 1]
         IN  IF s1.page[page].nalloced = 0
               THEN IF sl.keep_last_empty /\ sl.slabs = <<page>>
                      THEN s1
                      ELSE [s1 EXCEPT !.slabs = SelectSeq(@, LAMBDA q : q # page),
                                      !.page[page] = NoPage]
               ELSE s1
  ELSE sl

(***************************************************************************)
(* The warning lists of @warnings.  A bitmask is the set of its bits; the  *)
(* table of the known warnings comes from warn_tab.h, and two of its       *)
(* entries, one of them holding the bit of the other, stand for it.  A     *)
(* list is the sequence of its names, each with or without a leading `!',  *)
(* as trim_space_sep and split_token hand them out; a string of spaces is  *)
(* a list without names that is not empty.                                 *)
(***************************************************************************)

WarnTypeBits == 0..3

W_NONE == {}

(* (warn_type) -1. *)
W_MINUS_ONE == WarnTypeBits

checklist ==
  <<[name |-> "serious", flag |-> {0}], [name |-> "normal", flag |-> {0, 1}]>>

WarnNames == {"serious", "normal", "bogus"}

WarnToken == [negated : BOOLEAN, name : WarnNames]

WarnLists ==
  {[empty |-> e, tokens |-> t] :
     e \in BOOLEAN, t \in UNION {[1..n -> WarnToken] : n \in 0..MaxTokens}}

WarnInputs == {l \in WarnLists : l.empty => l.tokens = <<>>}

(* The bits of the entries of checklist that have the name of w. *)
WarnFlags(w) ==
  UNION {checklist[c].flag : c \in {d \in DOMAIN checklist : checklist[d].name = w.name}}

WarnKnown(w) == \E c \in DOMAIN checklist : checklist[c].name = w.name

(* The loop of parse_warnings from the i-th name on. *)
RECURSIVE parse_warnings_loop(_, _, _, _, _)
parse_warnings_loop(tokens, i, flags, negate_flags, found) ==
  IF i > Len(tokens)
    THEN IF ~found THEN W_MINUS_ONE ELSE flags \ negate_flags
    ELSE LET w == tokens[i]
         IN  IF w.negated
               THEN parse_warnings_loop(tokens, i + 1, flags,
                                        negate_flags \cup WarnFlags(w), WarnKnown(w))
               ELSE parse_warnings_loop(tokens, i + 1, flags \cup WarnFlags(w),
                                        negate_flags, WarnKnown(w))

parse_warnings(warnings) ==
  IF ~warnings.empty
    THEN parse_warnings_loop(warnings.tokens, 1, W_NONE, W_NONE, FALSE)
    ELSE W_NONE

(* do_warnings on an object whose bitmask is old; matched tells whether    *)
(* the object was found and the enactor controls it.                       *)
do_warnings(old, matched, warns) ==
  IF ~matched THEN old
  ELSE IF parse_warnings(warns) # old THEN parse_warnings(warns)
  ELSE old

(***************************************************************************)
(* The state machine.                                                      *)
(***************************************************************************)

SlaveStart ==
  /\ pc = "start"
  /\ loop_end = "none"
  /\ status = -1
  /\ cf_read = FALSE
  /\ ssl_ctx = FALSE
  /\ listener = FALSE
  /\ watcher = "none"
  /\ parent_pid = -1
  /\ ppid = 2
  /\ nalloc = 0
  /\ connections = <<>>
  /\ conn = [c \in Conn |-> alloc_conn]
  /\ mem = [c \in Conn |-> "unalloc"]
  /\ dns = [c \in Conn |-> "none"]
  /\ hist = [c \in Conn |-> NoHist]
  /\ resolver = FALSE
  /\ trace = <<>>

(* The value of a closer view in a specification that does not run it. *)
Idle == <<>>

Init ==
  /\ SlaveStart
  /\ pipe = Idle
  /\ sq = Idle
  /\ slab = Idle
  /\ warn = Idle
  /\ relay = Idle
  /\ reg = Idle
  /\ line = Idle
  /\ look = Idle

(* The event loop dispatches callbacks: event_base_dispatch is running.    *)
(* After event_base_loopexit it still runs the events that are queued;     *)
(* after event_base_loopbreak it returns as soon as the callback that      *)
(* called it has returned.                                                 *)
InLoop == pc = "loop"

(* The parent process exits; the process is re-parented (to pid 1).  An    *)
(* exit before main has recorded parent_pid only changes which pid main    *)
(* records, so the parent is taken to exit after that.                     *)
ParentExit ==
  /\ ppid = 2
  /\ pc \in {"setup", "loop", "cleanup"}
  /\ ppid' = 1
  /\ trace' = <<>>
  /\ UNCHANGED <<pc, loop_end, status, cf_read, ssl_ctx, listener, watcher, parent_pid,
                 nalloc, heapvars>>
  /\ UNCHANGED viewvars

(* main: the read of the configuration record. *)
ReadFailed(len) == len < 0

ReadConfig ==
  /\ pc = "start"
  /\ \E len \in -1..SizeofCf :
       /\ cf_read' = (len = SizeofCf)
       /\ IF ReadFailed(len)
            THEN pc' = "exited" /\ status' = EXIT_FAILURE
            ELSE pc' = "ssl_init" /\ status' = status
  /\ trace' = <<>>
  /\ UNCHANGED <<loop_end, ssl_ctx, listener, watcher, parent_pid, ppid, nalloc, heapvars>>
  /\ UNCHANGED viewvars

(* main: parent_pid = getppid() and ssl_init. *)
SslInit ==
  /\ pc = "ssl_init"
  /\ parent_pid' = ppid
  /\ \E ok \in BOOLEAN :
       /\ ssl_ctx' = ok
       /\ IF ok THEN pc' = "setup" /\ status' = status
                ELSE pc' = "exited" /\ status' = EXIT_FAILURE
  /\ trace' = <<>>
  /\ UNCHANGED <<loop_end, cf_read, listener, watcher, ppid, nalloc, heapvars>>
  /\ UNCHANGED viewvars

(* The detector main registers: strategy is what the build offers, `ok'    *)
(* whether enabling it succeeded.                                          *)
ChooseWatcher(strategy, ok) ==
  IF strategy = "prctl" /\ ok THEN "signal"
  ELSE IF strategy = "kqueue" /\ ok THEN "kqueue"
  ELSE "poll"

(* The polling detector added whether or not parent_watcher is set. *)
poll_always(parent_watcher) == <<Op("event_add", 0, "check_parent")>>

(* main's `if (!parent_watcher)': the 5 second timer of check_parent. *)
poll_unless(parent_watcher) ==
  IF parent_watcher THEN <<>> ELSE <<Op("event_add", 0, "check_parent")>>

(* The calls main makes to watch the parent and SIGTERM: the build's       *)
(* preferred strategy (HAVE_PRCTL, else HAVE_KQUEUE, else none), `ok'      *)
(* whether prctl, or kqueue and kevent, succeeded.                         *)
watch_parent_calls(strategy, ok) ==
  LET res == IF ok THEN "ok" ELSE "failed"
      preferred ==
        IF strategy = "prctl"
          THEN <<Op("prctl", 0, res)>>
                 \o (IF ok THEN <<Op("event_add", 0, "shutdown_cb SIGUSR1")>> ELSE <<>>)
        ELSE IF strategy = "kqueue"
          THEN <<Op("kevent", 0, res)>>
                 \o (IF ok THEN <<Op("event_add", 0, "check_parent_kqueue")>> ELSE <<>>)
        ELSE <<>>
      parent_watcher == strategy # "none" /\ ok
  IN  preferred \o poll_unless(parent_watcher)
        \o <<Op("event_add", 0, "shutdown_cb SIGTERM")>>

(* main: event base, resolver, listener, parent watcher, SIGTERM handler. *)
Setup ==
  /\ pc = "setup"
  /\ \E strategy \in {"prctl", "kqueue", "none"}, ok \in BOOLEAN :
       /\ watcher' = ChooseWatcher(strategy, ok)
       /\ trace' = watch_parent_calls(strategy, ok)
  /\ listener' = TRUE
  /\ resolver' = TRUE
  /\ pc' = "loop"
  /\ UNCHANGED <<loop_end, status, cf_read, ssl_ctx, parent_pid, ppid, nalloc,
                 connections, conn, mem, dns, hist>>
  /\ UNCHANGED viewvars

NewSslConn ==
  /\ InLoop
  /\ listener
  /\ nalloc < MaxConns
  /\ nalloc' = nalloc + 1
  /\ \E r \in {"accept_failed", "no_bufferevent", "accepted"} :
       Commit(new_ssl_conn_cb(Cur, nalloc + 1, r))
  /\ UNCHANGED <<pc, loop_end, status, cf_read, ssl_ctx, listener, watcher, parent_pid, ppid>>
  /\ UNCHANGED viewvars

(* The event flags ssl_event_cb tells apart: it tests BEV_EVENT_EOF and    *)
(* BEV_EVENT_ERROR with one mask.                                          *)
BevEvents == {"CONNECTED", "EOF_OR_ERROR", "TIMEOUT"}

(* Any event on any bufferevent that exists. *)
BevEventAlways(c, bev, e) ==
  LET b == IF bev = "local" THEN conn[c].local_bev ELSE conn[c].remote_bev
  IN  mem[c] = "live" /\ b # "NULL"

(* libevent reports an event on one of a connection's bufferevents:        *)
(* CONNECTED once per transport, when the handshake or the connect has     *)
(* completed; EOF, ERROR and TIMEOUT while the bufferevent exists.  The    *)
(* TIMEOUT branch of ssl_event_cb does not look at which bufferevent       *)
(* reported; the remote one, which exists whenever the local one does,     *)
(* stands for both.                                                        *)
BevEventPossible(c, bev, e) ==
  LET b == IF bev = "local" THEN conn[c].local_bev ELSE conn[c].remote_bev
  IN  /\ mem[c] = "live"
      /\ b # "NULL"
      /\ e = "CONNECTED" => b \in {"handshaking", "connecting"}
      /\ e = "TIMEOUT" => bev = "remote"

SslEventCb ==
  /\ InLoop
  /\ \E c \in Conn, bev \in {"local", "remote"}, e \in BevEvents :
       /\ BevEventPossible(c, bev, e)
       /\ \E family \in IF e = "CONNECTED" /\ bev = "remote"
                          THEN {"AF_INET", "AF_INET6", "AF_UNSPEC"} ELSE {"AF_INET"},
             sent \in IF e = "CONNECTED" /\ bev = "local" THEN BOOLEAN ELSE {TRUE} :
            Commit(ssl_event_cb(Cur, c, bev, e, family, sent))
  /\ UNCHANGED <<pc, loop_end, status, cf_read, ssl_ctx, listener, watcher, parent_pid,
                 ppid, nalloc>>
  /\ UNCHANGED viewvars

(* Bytes became readable on a transport whose read callback is pipe_cb. *)
PipeCb ==
  /\ InLoop
  /\ \E c \in Conn, from \in {"local", "remote"}, len \in 0..1 :
       \E written \in IF len = 0 THEN {TRUE} ELSE BOOLEAN :
         /\ mem[c] = "live"
         /\ IF from = "local" THEN conn[c].local_rd ELSE conn[c].remote_rd
         /\ Commit(pipe_cb(Cur, c, from, len, written))
  /\ UNCHANGED <<pc, loop_end, status, cf_read, ssl_ctx, listener, watcher, parent_pid,
                 ppid, nalloc>>
  /\ UNCHANGED viewvars

(* The replies the resolver completes a request with: a name, a failure,  *)
(* a reply without answers.                                                *)
Replies ==
  {[result |-> "DNS_ERR_NONE", type |-> "DNS_PTR", count |-> 1, addresses |-> TRUE],
   [result |-> "DNS_ERR_TIMEOUT", type |-> "DNS_PTR", count |-> 0, addresses |-> FALSE],
   [result |-> "DNS_ERR_NONE", type |-> "DNS_PTR", count |-> 0, addresses |-> TRUE]}

(* The resolver completes a request that is in flight. *)
AddressResolved ==
  /\ InLoop
  /\ \E c \in Conn, r \in Replies :
       /\ dns[c] = "inflight"
       /\ Commit(address_resolved([Cur EXCEPT !.dns[c] = "none"], c,
                                  r.result, r.type, r.count, r.addresses))
  /\ UNCHANGED <<pc, loop_end, status, cf_read, ssl_ctx, listener, watcher, parent_pid,
                 ppid, nalloc>>
  /\ UNCHANGED viewvars

(* The resolver runs the callback of a cancelled request.  The connection  *)
(* it passes has been freed, so the callback's store goes to freed memory: *)
(* the process carries on, or the damage kills it.                         *)
AddressCancelled ==
  /\ InLoop
  /\ \E c \in Conn, fault \in BOOLEAN :
       /\ dns[c] = "cancelled"
       /\ Commit(address_resolved([Cur EXCEPT !.dns[c] = "none"], c,
                                  "DNS_ERR_CANCEL", "DNS_PTR", 0, FALSE))
       /\ IF fault THEN pc' = "exited" /\ status' = KilledStatus
                   ELSE pc' = pc /\ status' = status
  /\ UNCHANGED <<loop_end, cf_read, ssl_ctx, listener, watcher, parent_pid, ppid, nalloc>>
  /\ UNCHANGED viewvars

(* SIGTERM, or SIGUSR1 where it is the registered parent-death signal. *)
ShutdownCb ==
  /\ InLoop
  /\ \E sig \in {SIGTERM} \cup (IF watcher = "signal" THEN {SIGUSR1} ELSE {}) :
       LET flush_local == ShutdownFlushLocal(SignalWhat(sig))
       IN  Commit(close_connections(
                    Emit(Cur, Op("shutdown_cb", sig,
                                 IF flush_local THEN "flush_local" ELSE "skip_local")),
                    flush_local))
  /\ loop_end' = "loopexit"
  /\ UNCHANGED <<pc, status, cf_read, ssl_ctx, listener, watcher, parent_pid, ppid, nalloc>>
  /\ UNCHANGED viewvars

(* The 5 second timer of the polling detector. *)
CheckParent ==
  /\ InLoop
  /\ watcher = "poll"
  /\ IF ppid # parent_pid
       THEN /\ Commit(close_connections(Emit(Cur, Op("check_parent", 0, "")), FALSE))
            /\ loop_end' = "loopbreak"
            /\ pc' = "cleanup"
       ELSE /\ Commit(Cur)
            /\ UNCHANGED <<pc, loop_end>>
  /\ UNCHANGED <<status, cf_read, ssl_ctx, listener, watcher, parent_pid, ppid, nalloc>>
  /\ UNCHANGED viewvars

(* The kqueue watch on the parent's exit fires. *)
CheckParentKqueue ==
  /\ InLoop
  /\ watcher = "kqueue"
  /\ ppid # parent_pid
  /\ Commit(close_connections(Emit(Cur, Op("check_parent_kqueue", 0, "")), FALSE))
  /\ loop_end' = "loopbreak"
  /\ pc' = "cleanup"
  /\ UNCHANGED <<status, cf_read, ssl_ctx, listener, watcher, parent_pid, ppid, nalloc>>
  /\ UNCHANGED viewvars

(* event_base_dispatch returns after event_base_loopexit. *)
LoopExit ==
  /\ pc = "loop"
  /\ loop_end = "loopexit"
  /\ pc' = "cleanup"
  /\ trace' = <<>>
  /\ UNCHANGED <<loop_end, status, cf_read, ssl_ctx, listener, watcher, parent_pid, ppid,
                 nalloc, heapvars>>
  /\ UNCHANGED viewvars

(* main after the loop: close(ssl_sock), evdns_base_free, the cleanup loop,*)
(* return EXIT_SUCCESS.                                                    *)
FinalCleanup ==
  /\ pc = "cleanup"
  /\ listener' = FALSE
  /\ \E fault \in BOOLEAN :
       LET h0 == Emit([Cur EXCEPT !.resolver = FALSE,
                                  !.dns = [c \in Conn |-> "none"]],
                      Op("evdns_base_free", 0, ""))
           h1 == final_free(h0, 1, fault)
       IN  /\ fault => UsedFreedResolver(h1)
           /\ Commit(h1)
           /\ status' = IF fault THEN KilledStatus ELSE EXIT_SUCCESS
  /\ pc' = "exited"
  /\ UNCHANGED <<loop_end, cf_read, ssl_ctx, watcher, parent_pid, ppid, nalloc>>
  /\ UNCHANGED viewvars

Next ==
  \/ ParentExit
  \/ ReadConfig
  \/ SslInit
  \/ Setup
  \/ NewSslConn
  \/ SslEventCb
  \/ PipeCb
  \/ AddressResolved
  \/ AddressCancelled
  \/ ShutdownCb
  \/ CheckParent
  \/ CheckParentKqueue
  \/ LoopExit
  \/ FinalCleanup

Spec == Init /\ [][Next]_vars

(***************************************************************************)
(* The relay of one ESTABLISHED connection, byte by byte.  libevent runs   *)
(* the read callback of a bufferevent when bytes have arrived in its input *)
(* buffer; bytes that a callback leaves there cause no further callback.   *)
(***************************************************************************)

RelayArrive ==
  /\ \E s \in Sides, n \in 1..MaxBytes :
       /\ relay.arrived[s] + n <= MaxBytes
       /\ relay' = [relay EXCEPT
                      !.input[s] = @ \o [k \in 1..n |-> Byte(s, relay.arrived[s] + k)],
                      !.arrived[s] = @ + n,
                      !.readable[s] = TRUE]
  /\ UNCHANGED <<slavevars, reg, line, look, pipe, sq, slab, warn>>

RelayPipeCb ==
  /\ \E s \in Sides, written \in BOOLEAN :
       /\ relay.readable[s]
       /\ relay' = [pipe_cb_bytes(relay, s, written) EXCEPT !.readable[s] = FALSE]
  /\ UNCHANGED <<slavevars, reg, line, look, pipe, sq, slab, warn>>

RelayNext ==
  \/ RelayArrive
  \/ RelayPipeCb

RelayInit ==
  /\ SlaveStart
  /\ pipe = Idle
  /\ sq = Idle
  /\ slab = Idle
  /\ warn = Idle
  /\ relay = RelayStart
  /\ reg = Idle
  /\ line = Idle
  /\ look = Idle

RelaySpec == RelayInit /\ [][RelayNext]_vars

(* The event loop runs every callback that is due. *)
RelayFairSpec == RelaySpec /\ WF_vars(RelayPipeCb)

(***************************************************************************)
(* The registry under any sequence of creations and delete_conn calls,     *)
(* delete_conn being called with any pointer value.                        *)
(***************************************************************************)

RegCall(op, c) == [op |-> op, c |-> c, before |-> Walk(reg), alive |-> reg.alive]

RegLink ==
  /\ \E c \in Node :
       /\ ~reg.alive[c]
       /\ reg' = [link_conn(reg, c) EXCEPT !.last = RegCall("link_conn", c)]
  /\ UNCHANGED <<slavevars, relay, line, look, pipe, sq, slab, warn>>

RegDelete ==
  /\ \E c \in Node :
       reg' = [delete_conn_list(reg, c) EXCEPT !.last = RegCall("delete_conn", c)]
  /\ UNCHANGED <<slavevars, relay, line, look, pipe, sq, slab, warn>>

RegNext ==
  \/ RegLink
  \/ RegDelete

RegInit ==
  /\ SlaveStart
  /\ pipe = Idle
  /\ sq = Idle
  /\ slab = Idle
  /\ warn = Idle
  /\ relay = Idle
  /\ reg = RegStart
  /\ line = Idle
  /\ look = Idle

RegSpec == RegInit /\ [][RegNext]_vars

(***************************************************************************)
(* One call of local_connected for any two strings.                        *)
(***************************************************************************)

LineInit ==
  /\ SlaveStart
  /\ pipe = Idle
  /\ sq = Idle
  /\ slab = Idle
  /\ warn = Idle
  /\ relay = Idle
  /\ reg = Idle
  /\ look = Idle
  /\ line \in {[LineStart EXCEPT !.ip = i, !.host = h] : i \in Str \ {<<>>}, h \in Str}

LineSend ==
  /\ ~line.called
  /\ \E ok \in BOOLEAN : line' = local_connected_line(line, ok)
  /\ UNCHANGED <<slavevars, relay, reg, look, pipe, sq, slab, warn>>

LineNext == LineSend

LineSpec == LineInit /\ [][LineNext]_vars

(***************************************************************************)
(* One call of address_resolved for any reply.                             *)
(***************************************************************************)

LookInit ==
  /\ SlaveStart
  /\ pipe = Idle
  /\ sq = Idle
  /\ slab = Idle
  /\ warn = Idle
  /\ relay = Idle
  /\ reg = Idle
  /\ line = Idle
  /\ look \in {[LookStart EXCEPT !.result = r, !.type = t, !.count = n,
                                 !.addresses = a, !.state = st, !.h = LookHeap(st)] :
                 r \in DnsResults, t \in DnsTypes, n \in 0..MaxAnswers,
                 a \in BOOLEAN, st \in {C_HOSTNAME_LOOKUP, C_SHUTTINGDOWN}}

LookCall ==
  /\ ~look.called
  /\ look' = [look EXCEPT
                !.called = TRUE,
                !.h = address_resolved(look.h, 1, look.result, look.type,
                                       look.count, look.addresses)]
  /\ UNCHANGED <<slavevars, relay, reg, line, pipe, sq, slab, warn>>

LookNext == LookCall

LookSpec == LookInit /\ [][LookNext]_vars

(***************************************************************************)
(* One call of pipe_cb.                                                    *)
(***************************************************************************)

PipeInit ==
  /\ SlaveStart
  /\ relay = Idle
  /\ reg = Idle
  /\ line = Idle
  /\ look = Idle
  /\ sq = Idle
  /\ slab = Idle
  /\ warn = Idle
  /\ pipe \in {[PipeStart EXCEPT !.state = st, !.from = f, !.dest = d, !.other = o,
                                 !.len = n, !.written = w,
                                 !.h = PipeHeap(st, f, d, o)] :
                 st \in {C_ESTABLISHED, C_SHUTTINGDOWN}, f \in Sides,
                 d \in {"NULL", "open"}, o \in Neighbours, n \in 0..1,
                 w \in BOOLEAN}

PipeCall ==
  /\ ~pipe.called
  /\ pipe' = [pipe EXCEPT
                !.called = TRUE,
                !.h = pipe_cb(pipe.h, 1, pipe.from, pipe.len, pipe.written)]
  /\ UNCHANGED <<slavevars, relay, reg, line, look, sq, slab, warn>>

PipeNext == PipeCall

PipeSpec == PipeInit /\ [][PipeNext]_vars

(***************************************************************************)
(* The system queue under any sequence of its calls, the clock advancing   *)
(* between them.                                                           *)
(***************************************************************************)

SqOthers == <<slavevars, relay, reg, line, look, pipe, slab, warn>>

(* sq_register with any time, past or future. *)
SqRegister ==
  /\ \E a \in SqMalloc(sq), w \in 0..MaxTime :
       sq' = [sq_register(sq, a, w, "plain", 0) EXCEPT
                !.last = [SqCall(sq_register(sq, a, w, "plain", 0), "sq_register", a)
                            EXCEPT !.ret = a]]
  /\ UNCHANGED SqOthers

SqRegisterInMsec ==
  /\ \E a \in SqMalloc(sq), n \in 0..MaxDelay :
       sq' = [sq_register_in_msec(sq, a, n, "plain", 0) EXCEPT
                !.last = [SqCall(sq_register_in_msec(sq, a, n, "plain", 0),
                                 "sq_register_in_msec", a) EXCEPT !.ret = a]]
  /\ UNCHANGED SqOthers

(* sq_cancel with any pointer value. *)
SqCancel ==
  /\ \E p \in 0..MaxSq :
       sq' = [sq_cancel(sq, p) EXCEPT !.last = SqCall(sq, "sq_cancel", p)]
  /\ UNCHANGED SqOthers

(* sq_run_one.  No entry has an event here, so what the function returns   *)
(* is not used.                                                            *)
SqRunOne ==
  /\ \E cb \in {c \in SqFuns(sq) : ~c.r} :
       \E la \in SqLoopAddrs(sq, cb) :
         sq' = sq_run_one(sq, cb, la)
  /\ UNCHANGED SqOthers

(* sq_run_all, the functions of the entries leaving the queue alone. *)
RECURSIVE sq_run_all(_, _, _)
sq_run_all(q, r, k) ==
  IF SqDue(q) /\ k > 0
    THEN sq_run_all(sq_run_one(q, [kind |-> "none", a |-> 0, n |-> 0, r |-> r], 0),
                    r, k - 1)
    ELSE q

SqRunAll ==
  /\ sq.head # 0 => \A i \in DOMAIN SqWalk(sq) : sq.fun[SqWalk(sq)[i]] = "plain"
  /\ \E r \in {FALSE} :
       sq' = [sq_run_all(sq, r, MaxSq) EXCEPT
                !.last = [SqCall(sq, "sq_run_all", 0) EXCEPT
                            !.ret = IF SqDue(sq) THEN 1 ELSE 0]]
  /\ UNCHANGED SqOthers

SqMsecsTillNext ==
  /\ sq' = [sq EXCEPT !.last = [SqCall(sq, "sq_msecs_till_next", 0) EXCEPT
                                  !.ret = sq_msecs_till_next(sq)]]
  /\ UNCHANGED SqOthers

(* now_msecs() returns a later time. *)
SqTick ==
  /\ sq.now < MaxTime
  /\ sq' = [sq EXCEPT !.now = @ + 1, !.last = SqCall(sq, "tick", 0)]
  /\ UNCHANGED SqOthers

SqNext ==
  \/ SqRegister
  \/ SqRegisterInMsec
  \/ SqCancel
  \/ SqRunOne
  \/ SqRunAll
  \/ SqMsecsTillNext
  \/ SqTick

SqInit ==
  /\ SlaveStart
  /\ relay = Idle
  /\ reg = Idle
  /\ line = Idle
  /\ look = Idle
  /\ pipe = Idle
  /\ slab = Idle
  /\ warn = Idle
  /\ sq = SqStart

SqSpec == SqInit /\ [][SqNext]_vars

(***************************************************************************)
(* The system queue with one loop in it.  sq_register_loop_msec returns    *)
(* nothing and sq_loop_fun drops the result of its registration, so no     *)
(* caller and no function holds a pointer to the entry of the loop: the    *)
(* pointers given to sq_cancel are NULL and the entries that sq_register   *)
(* returned.  The other entries are registered relative to the clock and   *)
(* have no event; what their functions would do to the queue their callers *)
(* do here, so only the function of the loop registers, cancels and        *)
(* returns either value.  mush_malloc always finds room.                   *)
(***************************************************************************)

SqHeld(q) == {p \in 0..MaxSq : p = 0 \/ q.fun[p] = "plain"}

SqRoom(q) == Cardinality({n \in SqNode : ~q.alive[n]})

SqLoopRegisterInMsec ==
  /\ SqRoom(sq) >= 2
  /\ SqRegisterInMsec

SqLoopCancel ==
  /\ \E p \in SqHeld(sq) :
       sq' = [sq_cancel(sq, p) EXCEPT !.last = SqCall(sq, "sq_cancel", p)]
  /\ UNCHANGED SqOthers

SqLoopRunOne ==
  /\ \E cb \in {c \in SqFuns(sq) :
                  /\ c.kind = "cancel" => c.a \in SqHeld(sq)
                  /\ (c.r \/ c.kind # "none") => sq.fun[sq.head] = "sq_loop_fun"} :
       \E la \in SqLoopAddrs(sq, cb) :
         sq' = sq_run_one(sq, cb, la)
  /\ UNCHANGED SqOthers

SqLoopNext ==
  \/ SqLoopRegisterInMsec
  \/ SqLoopCancel
  \/ SqLoopRunOne
  \/ SqTick

(* sq_register_loop_msec(n, f, d, ev) on the empty queue. *)
SqLoopInit ==
  /\ SlaveStart
  /\ relay = Idle
  /\ reg = Idle
  /\ line = Idle
  /\ look = Idle
  /\ pipe = Idle
  /\ slab = Idle
  /\ warn = Idle
  /\ \E n \in 0..MaxDelay :
       sq = [sq_register_loop_msec(SqStart, 1, n) EXCEPT
               !.last = SqCall(SqStart, "sq_register_loop_msec", 0)]

SqLoopSpec == SqLoopInit /\ [][SqLoopNext]_vars

(* The clock advances and the main loop keeps calling sq_run_one. *)
SqLoopFairSpec == SqLoopSpec /\ WF_vars(SqTick) /\ WF_vars(SqLoopRunOne)

(***************************************************************************)
(* The slab allocator in use: a slab whose objects fit a page              *)
(* ItemsPerPage times, or not at all, and callers that allocate with any   *)
(* hint, free what they were given or a pointer that is no object of the   *)
(* slab, and set the options, the threshold to 0 or to a number that no    *)
(* page exceeds.  posix_memalign returns the lowest address that is free,  *)
(* and succeeds.                                                           *)
(***************************************************************************)

SlabOthers == <<slavevars, relay, reg, line, look, pipe, sq, warn>>

SlabMalloc ==
  /\ Cardinality(slab.live) < MaxLive
  /\ \E hint \in 0..MaxPages :
       LET free == {p \in SlabPageId : \A i \in DOMAIN slab.slabs : slab.slabs[i] # p}
           np == IF free = {} THEN 0 ELSE CHOOSE p \in free : \A q \in free : p <= q
           grows == Len(slab_malloc(slab, hint, 1).slabs) > Len(slab.slabs)
           got == slab_malloc(slab, hint, IF grows THEN np ELSE 1)
       IN  /\ grows => np # 0
           /\ slab' = [got EXCEPT !.last.op = "slab_malloc",
                                  !.last.fresh = got.last.obj \notin slab.live,
                                  !.live = @ \cup ({got.last.obj} \ {NullObj})]
  /\ UNCHANGED SlabOthers

SlabFree ==
  /\ \E obj \in slab.live \cup {NullObj} :
       slab' = [slab_free(slab, obj) EXCEPT
                  !.last = [op |-> "slab_free", obj |-> obj, fresh |-> FALSE],
                  !.live = @ \ {obj}]
  /\ UNCHANGED SlabOthers

SlabSetOpt ==
  /\ slab # NoSlab
  /\ \/ \E opt \in {"SLAB_ALLOC_FIRST_FIT", "SLAB_ALLOC_BEST_FIT"} :
          slab' = slab_set_opt(slab, opt, 0)
     \/ \E val \in 0..1 : slab' = slab_set_opt(slab, "SLAB_ALWAYS_KEEP_A_PAGE", val)
     \/ \E val \in {0, MaxThreshold} :
          slab' = slab_set_opt(slab, "SLAB_HINTLESS_THRESHOLD", val)
  /\ UNCHANGED SlabOthers

SlabNext ==
  \/ SlabMalloc
  \/ SlabFree
  \/ SlabSetOpt

SlabInit ==
  /\ SlaveStart
  /\ relay = Idle
  /\ reg = Idle
  /\ line = Idle
  /\ look = Idle
  /\ pipe = Idle
  /\ sq = Idle
  /\ warn = Idle
  /\ \E size \in {SizeofVoidP, SlabPage} : slab = slab_create(SlabPage, size)

SlabSpec == SlabInit /\ [][SlabNext]_vars

(***************************************************************************)
(* slab_create with any size, on a system with small or with common pages. *)
(***************************************************************************)

SlabCreate ==
  /\ slab = NoSlab
  /\ \E pgsize \in {SlabPage, PageBytes}, size \in 0..MaxSize :
       slab' = slab_create(pgsize, size)
  /\ UNCHANGED SlabOthers

SlabDestroy ==
  /\ slab # NoSlab
  /\ slab' = NoSlab
  /\ UNCHANGED SlabOthers

SlabCreateNext ==
  \/ SlabCreate
  \/ SlabSetOpt
  \/ SlabDestroy

SlabCreateInit ==
  /\ SlaveStart
  /\ relay = Idle
  /\ reg = Idle
  /\ line = Idle
  /\ look = Idle
  /\ pipe = Idle
  /\ sq = Idle
  /\ warn = Idle
  /\ slab = NoSlab

SlabCreateSpec == SlabCreateInit /\ [][SlabCreateNext]_vars

(***************************************************************************)
(* @warnings: an object whose bitmask set_initial_warnings or an earlier   *)
(* @warnings has set, and calls of parse_warnings and do_warnings with any *)
(* list.                                                                   *)
(***************************************************************************)

WarnOthers == <<slavevars, relay, reg, line, look, pipe, sq, slab>>

WarnParse ==
  /\ \E warnings \in WarnInputs :
       warn' = [warn EXCEPT !.last = [op |-> "parse_warnings", arg |-> warnings,
                                      old |-> warn.mask,
                                      ret |-> parse_warnings(warnings)]]
  /\ UNCHANGED WarnOthers

WarnDo ==
  /\ \E warns \in WarnInputs, matched \in BOOLEAN :
       warn' = [mask |-> do_warnings(warn.mask, matched, warns),
                last |-> [op |-> IF matched THEN "do_warnings" ELSE "do_warnings_denied",
                          arg |-> warns, old |-> warn.mask,
                          ret |-> parse_warnings(warns)]]
  /\ UNCHANGED WarnOthers

WarnNext ==
  \/ WarnParse
  \/ WarnDo

WarnInit ==
  /\ SlaveStart
  /\ relay = Idle
  /\ reg = Idle
  /\ line = Idle
  /\ look = Idle
  /\ pipe = Idle
  /\ sq = Idle
  /\ slab = Idle
  /\ warn = [mask |-> checklist[2].flag,
             last |-> [op |-> "set_initial_warnings", arg |-> [empty |-> TRUE, tokens |-> <<>>],
                       old |-> W_NONE, ret |-> W_NONE]]

WarnSpec == WarnInit /\ [][WarnNext]_vars

(***************************************************************************)
(* Vocabulary of the properties.                                           *)
(***************************************************************************)

HasOp(op, c, side) == \E i \in DOMAIN trace : trace[i] = Op(op, c, side)

Registered == {connections[i] : i \in DOMAIN connections}

(* The state assignments the last callback made that changed the state. *)
StateChanges ==
  {<<trace[i].from, trace[i].to>> :
     i \in {j \in DOMAIN trace : trace[j].op = "state" /\ trace[j].from # trace[j].to}}

(* The state table of the connection state machine. *)
StateTable ==
  {<<C_SSL_CONNECTING, C_HOSTNAME_LOOKUP>>, <<C_SSL_CONNECTING, C_SHUTTINGDOWN>>,
   <<C_HOSTNAME_LOOKUP, C_LOCAL_CONNECTING>>,
   <<C_LOCAL_CONNECTING, C_ESTABLISHED>>, <<C_LOCAL_CONNECTING, C_SHUTTINGDOWN>>,
   <<C_ESTABLISHED, C_SHUTTINGDOWN>>}

(* C1: no callback moves a connection's state to an earlier state of the   *)
(* order SSL_CONNECTING < HOSTNAME_LOOKUP < LOCAL_CONNECTING < ESTABLISHED  *)
(* < SHUTTING_DOWN; in particular nothing leaves SHUTTING_DOWN.            *)
C1_StateNeverGoesBack == \A t \in StateChanges : t[1] < t[2]

(* C2: every state change is a transition of the state table. *)
C2_OnlyTableTransitions == StateChanges \subseteq StateTable

(* C2 as amended: besides the table's transitions there is                 *)
(* HOSTNAME_LOOKUP -> SHUTTING_DOWN, and, only while the loop drains after *)
(* event_base_loopexit, a change out of SHUTTING_DOWN made by a queued     *)
(* connect or resolver callback; no other change skips a state.            *)
C2_TableWithLookupDropAndDrain ==
  \A t \in StateChanges :
    \/ t \in StateTable
    \/ t = <<C_HOSTNAME_LOOKUP, C_SHUTTINGDOWN>>
    \/ /\ t[1] = C_SHUTTINGDOWN
       /\ t[2] \in {C_HOSTNAME_LOOKUP, C_LOCAL_CONNECTING, C_ESTABLISHED}
       /\ loop_end = "loopexit"

C2_Witness ==
  /\ <<C_HOSTNAME_LOOKUP, C_SHUTTINGDOWN>> \in StateChanges
  /\ loop_end = "none"

C4_NoEffectAfterCancel ==
  \A i \in DOMAIN trace : trace[i].op # "write_freed"

(* C5: a connection whose handshake has not completed has never had a      *)
(* local transport or a resolver request, and the handshake timeout        *)
(* destroys it from SSL_CONNECTING, tearing down the remote transport only.*)
C5_HandshakeTimeoutTearsDownRemoteOnly ==
  /\ \A c \in Conn :
       (mem[c] = "live" /\ conn[c].remote_bev = "handshaking") =>
         /\ hist[c].ever = {}
         /\ conn[c].local_bev = "NULL"
         /\ ~conn[c].resolver_req
         /\ dns[c] = "none"
  /\ \A c \in Conn :
       HasOp("handshake_timeout", c, "remote") =>
         /\ mem[c] = "freed"
         /\ c \notin Registered
         /\ \E i \in DOMAIN trace :
              trace[i] = StateOp(c, C_SSL_CONNECTING, C_SHUTTINGDOWN)
         /\ \E i \in DOMAIN trace : trace[i] = FreeOp(c, C_SHUTTINGDOWN, {})
         /\ HasOp("bufferevent_free", c, "remote")
         /\ \A i \in DOMAIN trace :
              /\ trace[i].side # "local"
              /\ trace[i].op \notin {"evdns_cancel_request", "bufferevent_socket_new"}

C5_Witness == \E c \in Conn : HasOp("handshake_timeout", c, "remote")

LocalTouched ==
  \E i \in DOMAIN trace :
    /\ trace[i].side = "local"
    /\ trace[i].op \in {"disable_read", "bufferevent_flush", "bufferevent_write",
                        "send_with_creds"}

Drained(c, side) == HasOp("disable_read", c, side) /\ HasOp("bufferevent_flush", c, side)

(* C6: with the polling detector, the check that sees the parent gone      *)
(* marks every registered connection SHUTTING_DOWN, stops and flushes the  *)
(* remote transports only, and breaks the loop, so no callback runs after  *)
(* it; the process then frees every connection and exits, without having   *)
(* written to or flushed a local transport.                                *)
C6_PollingParentDeath ==
  /\ HasOp("check_parent", 0, "") =>
       /\ \A c \in Registered :
            /\ conn[c].state = C_SHUTTINGDOWN
            /\ conn[c].remote_bev # "NULL" => Drained(c, "remote")
       /\ ~LocalTouched
       /\ pc = "cleanup" /\ loop_end = "loopbreak"
  /\ (watcher = "poll" /\ loop_end = "loopbreak") =>
       /\ pc \in {"cleanup", "exited"}
       /\ ~LocalTouched
       /\ pc = "exited" => \A c \in Registered : mem[c] = "freed"

(* C7: shutdown_cb skips the local side exactly when the signal it runs    *)
(* for is SIGUSR1: then no local transport has reads disabled or is        *)
(* flushed, and for SIGTERM the local transports are flushed.              *)
C7_DeathSignalSkipsLocal ==
  \A i \in DOMAIN trace :
    trace[i].op = "shutdown_cb" =>
      /\ (trace[i].side = "skip_local") <=> (trace[i].c = SIGUSR1)
      /\ trace[i].c = SIGUSR1 => ~LocalTouched

(* C8: shutdown_cb run for SIGTERM marks every registered connection       *)
(* SHUTTING_DOWN and disables reads and flushes both of its existing       *)
(* transports, and a process whose loop was ended that way terminates with *)
(* status 0.                                                               *)
C8_SigtermDrainsAndExitsZero ==
  /\ (\E i \in DOMAIN trace : trace[i].op = "shutdown_cb" /\ trace[i].c = SIGTERM) =>
       \A c \in Registered :
         /\ conn[c].state = C_SHUTTINGDOWN
         /\ conn[c].remote_bev # "NULL" => Drained(c, "remote")
         /\ conn[c].local_bev # "NULL" => Drained(c, "local")
  /\ (pc = "exited" /\ loop_end = "loopexit") => status = EXIT_SUCCESS

(* C9: unless read returned exactly sizeof(struct ssl_slave_config) bytes  *)
(* the process exits with failure status, with no TLS context, no listener *)
(* and no event loop.                                                      *)
C9_ShortReadIsFatal ==
  (pc # "start" /\ ~cf_read) =>
    /\ pc = "exited" /\ status = EXIT_FAILURE
    /\ ~ssl_ctx /\ ~listener /\ watcher = "none" /\ nalloc = 0

(* C10: status 0 only after the event loop was ended in order; non-zero    *)
(* when the configuration record was not read or TLS initialisation        *)
(* failed; no listener and no connection before the TLS context exists.    *)
C10_ExitStatus ==
  /\ status = EXIT_SUCCESS => (pc = "exited" /\ loop_end # "none")
  /\ (pc = "exited" /\ (~cf_read \/ ~ssl_ctx)) => status # EXIT_SUCCESS
  /\ (listener \/ nalloc > 0) => (ssl_ctx /\ pc \notin {"start", "ssl_init"})

Arrived(side) == [k \in 1..relay.arrived[side] |-> Byte(side, k)]

Opposite(side) == IF side = "local" THEN "remote" ELSE "local"

(* C11: what has been written to each transport is exactly what pipe_cb    *)
(* has read from the other one, same bytes in the same order, and what it  *)
(* has read is what arrived, in order.                                     *)
C11_RelayedVerbatim ==
  \A s \in Sides :
    /\ relay.output[Opposite(s)] = relay.taken[s]
    /\ relay.taken[s] \o relay.input[s] = Arrived(s)

(* C11 as amended: what has been written to each transport is what pipe_cb *)
(* has read from the other one, in order, less the chunks whose            *)
(* bufferevent_write failed, which are dropped whole; no chunk is longer   *)
(* than BUFFER_LEN and nothing goes back to the transport it came from.    *)
C11_RelayedVerbatimUnlessWriteFailed ==
  \A s \in Sides :
    /\ relay.output[Opposite(s)] =
         SelectSeq(relay.taken[s], LAMBDA b : b \notin relay.lost[s])
    /\ relay.taken[s] \o relay.input[s] = Arrived(s)
    /\ Range(relay.output[s]) \cap Range(Arrived(s)) = {}

C11_Witness ==
  /\ \A s \in Sides : Len(relay.output[s]) >= 2
  /\ \E s \in Sides : relay.lost[s] # {}

(* C12: every byte that has arrived on a transport is eventually written   *)
(* to the other one (or was in a chunk whose write failed), the event loop *)
(* running every read callback that is due.                                *)
C12_LargePayloadForwarded ==
  \A s \in Sides : \A k \in 1..MaxBytes :
    (Byte(s, k) \in Range(relay.input[s]))
      ~> (Byte(s, k) \in Range(relay.output[Opposite(s)]) \cup relay.lost[s])

(* C13: delete_conn(c) on a member of the registry leaves the registry     *)
(* without c and with every other member, in order, and frees c; on any    *)
(* other pointer it changes nothing and frees nothing.  The list stays     *)
(* well linked, holds exactly the allocated nodes, and no node is freed    *)
(* twice or used after it was freed.                                       *)
C13_DeleteConnRemovesOnce ==
  LET now == Walk(reg)
      c == reg.last.c
      before == reg.last.before
  IN  /\ reg.bad = {}
      /\ now = reg.list
      /\ \A n \in Node : reg.alive[n] <=> n \in Range(now)
      /\ \A i \in DOMAIN now : reg.prev[now[i]] = IF i = 1 THEN 0 ELSE now[i - 1]
      /\ reg.last.op = "delete_conn" =>
           IF c \in Range(before)
             THEN /\ c \notin Range(now)
                  /\ now = SelectSeq(before, LAMBDA n : n # c)
                  /\ ~reg.alive[c]
                  /\ \A n \in Node \ {c} : reg.alive[n] = reg.last.alive[n]
             ELSE /\ now = before
                  /\ reg.alive = reg.last.alive

C13_Witness ==
  /\ reg.last.op = "delete_conn"
  /\ reg.last.c \notin Range(reg.last.before)
  /\ Len(reg.last.before) >= 2
  /\ reg.next[reg.last.c] # 0 \/ reg.prev[reg.last.c] # 0

Count(list, c) == Cardinality({i \in DOMAIN list : list[i] = c})

(* C14: while the event loop runs the registry holds every live connection *)
(* exactly once and no other; a connection enters it only in a callback    *)
(* that allocates it and leaves it only in a callback that frees it.       *)
C14_RegistryHoldsLiveOnce ==
  /\ [](InLoop => \A c \in Conn :
                    Count(connections, c) = IF mem[c] = "live" THEN 1 ELSE 0)
  /\ [][connections' # connections => \A c \in Conn :
          /\ (c \notin Registered /\ c \in Registered') => HasOp("alloc_conn", c, "")'
          /\ (c \in Registered /\ c \notin Registered') =>
               (\E i \in DOMAIN trace' : trace'[i].op = "free" /\ trace'[i].c = c)]_vars

C14_Witness ==
  /\ InLoop
  /\ Len(connections) = 1
  /\ \E c \in Conn : mem[c] = "freed"
  /\ \E i \in DOMAIN trace : trace[i].op = "free"

Frees(c, side) ==
  Cardinality({i \in DOMAIN trace : trace[i] = Op("bufferevent_free", c, side)})

Destroyed(c) == Cardinality({i \in DOMAIN trace : trace[i].op = "free" /\ trace[i].c = c})

(* C15: no connection is freed twice and no transport is freed twice; a    *)
(* callback that destroys a connection frees the transports it still has   *)
(* and cancels its outstanding resolver request on the resolver; and the   *)
(* final cleanup of main leaves no connection that is not destroyed.       *)
C15_DestroyedExactlyOnce ==
  /\ [](\A c \in Conn :
          /\ ~HasOp("double_free", c, "")
          /\ Destroyed(c) <= 1
          /\ \A side \in Sides : Frees(c, side) <= 1)
  /\ [][\A c \in Conn :
          (mem[c] = "live" /\ mem'[c] = "freed") =>
            /\ Destroyed(c)' = 1
            /\ conn[c].local_bev # "NULL" => Frees(c, "local")' = 1
            /\ conn[c].remote_bev # "NULL" => Frees(c, "remote")' = 1
            /\ conn[c].resolver_req => HasOp("evdns_cancel_request", c, "")']_vars
  /\ [](HasOp("evdns_base_free", 0, "") => \A c \in Conn : mem[c] # "live")

(* The step is taken by a callback of one connection (or of the listener), *)
(* not by the signal handler or a parent-death detector.                   *)
ConnCallbackStep ==
  /\ pc = "loop"
  /\ loop_end = "none"
  /\ loop_end' = "none"
  /\ pc' # "cleanup"

Others(list, c) == SelectSeq(list, LAMBDA d : d # c)

(* C16: a callback that fails for one connection changes that connection   *)
(* only: every other connection keeps its fields, its memory, its lookup    *)
(* and its place in the registry, and the event loop keeps running.         *)
C16_FailureIsolated ==
  [][ConnCallbackStep =>
       /\ pc' = "loop"
       /\ \E c \in Conn :
            /\ Others(connections', c) = Others(connections, c)
            /\ \A d \in Conn \ {c} :
                 conn'[d] = conn[d] /\ mem'[d] = mem[d] /\ dns'[d] = dns[d]]_vars

(* ssl_event_cb ran for connection c with BEV_EVENT_TIMEOUT. *)
TimeoutReported(c) ==
  \E i \in DOMAIN trace :
    trace[i].c = c /\ trace[i].op \in {"handshake_timeout", "timeout_ignored"}

(* C17 as stated: a timeout event on a transport of an ESTABLISHED         *)
(* connection moves it to SHUTTING_DOWN and destroys it.                   *)
C17_EstablishedTimeoutDestroys ==
  [][\A c \in Conn :
       (mem[c] = "live" /\ conn[c].state = C_ESTABLISHED /\ TimeoutReported(c)') =>
         /\ mem'[c] = "freed"
         /\ \E i \in DOMAIN trace' :
              trace'[i] = StateOp(c, C_ESTABLISHED, C_SHUTTINGDOWN)]_vars

(* C17 amended: a timeout event on a transport of an ESTABLISHED           *)
(* connection is ignored: the callback returns without a library call or   *)
(* an assignment, so the connection stays ESTABLISHED, registered and with *)
(* both transports, and nothing else changes either.                       *)
C17_EstablishedTimeoutIgnored ==
  [][\A c \in Conn :
       (mem[c] = "live" /\ conn[c].state = C_ESTABLISHED /\ TimeoutReported(c)') =>
         /\ trace' = <<Op("timeout_ignored", c, "")>>
         /\ UNCHANGED heapvars
         /\ UNCHANGED <<pc, loop_end, status>>]_vars

C17_Witness ==
  \E c \in Conn :
    /\ trace = <<Op("timeout_ignored", c, "")>>
    /\ mem[c] = "live"
    /\ conn[c].state = C_ESTABLISHED
    /\ conn[c].local_bev # "NULL" /\ conn[c].remote_bev # "NULL"
    /\ c \in Registered

(* C18 as stated: a connection is in SHUTTING_DOWN whenever it is freed. *)
C18_DestroyedInShuttingDown ==
  \A i \in DOMAIN trace : trace[i].op = "free" => trace[i].from = C_SHUTTINGDOWN

(* C18 amended: a connection is in SHUTTING_DOWN when it is freed, except  *)
(* that new_ssl_conn_cb deletes the connection it has just created in      *)
(* SSL_CONNECTING when the accept or the bufferevent fails, that           *)
(* local_connected deletes it in ESTABLISHED, the state it has just set,   *)
(* when the handshake line cannot be sent, and that main's cleanup after   *)
(* event_base_loopexit frees each connection in the state the callbacks    *)
(* that ran after the signal left it in.                                   *)
C18_DestroyedInShuttingDownOrFailedSetup ==
  \A i \in DOMAIN trace :
    trace[i].op = "free" =>
      LET c == trace[i].c
          st == trace[i].from
      IN  \/ st = C_SHUTTINGDOWN
          \/ /\ st = C_SSL_CONNECTING
             /\ trace[1] = Op("alloc_conn", c, "")
             /\ Len(trace) = 2
          \/ /\ st = C_ESTABLISHED
             /\ \E j \in 1..(i - 1) : trace[j].op = "state" /\ trace[j].c = c
                                      /\ trace[j].to = C_ESTABLISHED
             /\ ~HasOp("send_with_creds", c, "local")
          \/ /\ HasOp("evdns_base_free", 0, "")
             /\ loop_end = "loopexit"

C18_Witness ==
  \E c \in Conn :
    /\ mem[c] = "freed"
    /\ c \notin Registered
    /\ ~HasOp("evdns_base_free", 0, "")
    /\ \E i \in DOMAIN trace : trace[i].op = "free" /\ trace[i].c = c
                               /\ trace[i].from = C_ESTABLISHED

(* C19: what local_connected puts on the local socket is remote_ip, "^",   *)
(* remote_host, CR, LF: all strlen(remote_ip) + strlen(remote_host) + 3    *)
(* bytes of it and no NUL; when the send fails nothing is put on the       *)
(* socket and the connection is deleted, so no payload follows.            *)
C19_HandshakeLineExact ==
  line.called =>
    IF line.deleted
      THEN line.wire = <<>> /\ line.ret < 0
      ELSE /\ line.wire = line.ip \o <<"^">> \o line.host \o <<"\r", "\n">>
           /\ Len(line.wire) = strlen(line.ip) + strlen(line.host) + 3
           /\ line.ret = Len(line.wire)
           /\ "NUL" \notin Range(line.wire)

C19_Witness ==
  /\ line.called
  /\ ~line.deleted
  /\ Len(line.ip) = MaxStr
  /\ Len(line.host) = MaxStr
  /\ Len(line.wire) = 2 * MaxStr + 3

(* The reply carries a name: success, PTR records, at least one of them. *)
NameAnswered ==
  /\ look.result = "DNS_ERR_NONE"
  /\ look.type = "DNS_PTR"
  /\ look.count >= 1
  /\ look.addresses

(* C20: a lookup that completes without a name, and was not cancelled,     *)
(* does not tear the connection down: remote_host and remote_ip are both   *)
(* the numeric address, and the connection goes to LOCAL_CONNECTING and    *)
(* opens its local transport with the same calls as when a name arrived,   *)
(* where only remote_host differs.                                         *)
C20_LookupFailureFallsBack ==
  (look.called /\ look.result # "DNS_ERR_CANCEL") =>
    LET c == look.h.conn[1]
    IN  /\ look.h.mem[1] = "live"
        /\ InRegistry(look.h, 1)
        /\ c.remote_bev = "open"
        /\ ~c.resolver_req
        /\ c.state = C_LOCAL_CONNECTING
        /\ c.local_bev = "connecting"
        /\ c.remote_ip = "ip"
        /\ c.remote_host = IF NameAnswered THEN "host" ELSE "ip"
        /\ look.h.trace = <<StateOp(1, look.state, C_LOCAL_CONNECTING),
                            Op("bufferevent_socket_new", 1, "local")>>

C20_Witness ==
  /\ look.called
  /\ look.result = "DNS_ERR_NONE"
  /\ look.type = "DNS_PTR"
  /\ look.count = 0
  /\ look.state = C_HOSTNAME_LOOKUP
  /\ look.h.conn[1].state = C_LOCAL_CONNECTING
  /\ look.h.conn[1].remote_host = "ip"

(* A call that puts bytes on a connection's local transport. *)
LocalWrite(op, c) ==
  /\ op.c = c
  /\ op.side = "local"
  /\ op.op \in {"send_with_creds", "bufferevent_write"}

(* C21: a connection that has not reached ESTABLISHED has had nothing      *)
(* written to its local transport, neither the handshake line nor payload, *)
(* and the callback that destroys such a connection writes nothing to it   *)
(* either.                                                                 *)
C21_NothingWrittenBeforeEstablished ==
  /\ \A c \in Conn :
       (mem[c] = "live" /\ "established" \notin hist[c].ever) =>
         /\ hist[c].first_local = "none"
         /\ hist[c].hs_lines = 0
         /\ \A i \in DOMAIN trace : ~LocalWrite(trace[i], c)
  /\ \A i \in DOMAIN trace :
       (trace[i].op = "free" /\ "established" \notin trace[i].ever) =>
         \A j \in DOMAIN trace : ~LocalWrite(trace[j], trace[i].c)

C21_Witness ==
  \E i \in DOMAIN trace :
    /\ trace[i].op = "free"
    /\ trace[i].ever = {"req", "local"}
    /\ HasOp("bufferevent_free", trace[i].c, "local")
    /\ pc = "loop" /\ loop_end = "none"

(* Where the call op is in trace, 0 if it is not. *)
Pos(op) ==
  IF \E i \in DOMAIN trace : trace[i] = op
    THEN CHOOSE i \in DOMAIN trace : trace[i] = op
    ELSE 0

FreePos(c) ==
  IF \E i \in DOMAIN trace : trace[i].op = "free" /\ trace[i].c = c
    THEN CHOOSE i \in DOMAIN trace : trace[i].op = "free" /\ trace[i].c = c
    ELSE 0

(* The last callback was ssl_event_cb tearing c down for an EOF or error   *)
(* on its local transport / on its remote transport or for the handshake   *)
(* timeout.                                                                *)
LocalOriginated(c) == trace # <<>> /\ trace[1] = Op("bufferevent_disable", c, "local")

RemoteOriginated(c) ==
  /\ trace # <<>>
  /\ trace[1] \in {Op("bufferevent_disable", c, "remote"),
                   Op("handshake_timeout", c, "remote")}

(* C22: while the loop runs, SSL_shutdown is called for a connection       *)
(* exactly in the teardown for an event on its local transport (the remote *)
(* transport exists then): after the local transport is disabled, the      *)
(* remote reads are disabled and the remote output is flushed, and before  *)
(* the connection is freed.  A teardown for an event on the remote         *)
(* transport or for the handshake timeout calls no SSL_shutdown; it        *)
(* disables reads on the local transport and flushes it if there is one.   *)
C22_TlsShutdownOnLocalTeardown ==
  ~HasOp("evdns_base_free", 0, "") =>
    \A c \in Conn :
      /\ HasOp("SSL_shutdown", c, "remote") <=> LocalOriginated(c)
      /\ LocalOriginated(c) =>
           /\ Pos(Op("bufferevent_disable", c, "local")) < Pos(Op("SSL_shutdown", c, "remote"))
           /\ 0 < Pos(Op("disable_read", c, "remote"))
           /\ Pos(Op("disable_read", c, "remote")) < Pos(Op("bufferevent_flush", c, "remote"))
           /\ Pos(Op("bufferevent_flush", c, "remote")) < Pos(Op("SSL_shutdown", c, "remote"))
           /\ Pos(Op("SSL_shutdown", c, "remote")) < FreePos(c)
           /\ mem[c] = "freed"
      /\ RemoteOriginated(c) =>
           /\ FreePos(c) > 0
           /\ mem[c] = "freed"
           /\ IF "local" \in trace[FreePos(c)].ever
                THEN /\ 0 < Pos(Op("disable_read", c, "local"))
                     /\ Pos(Op("disable_read", c, "local")) < Pos(Op("bufferevent_flush", c, "local"))
                     /\ Pos(Op("bufferevent_flush", c, "local")) < FreePos(c)
                ELSE \A i \in DOMAIN trace : trace[i].side # "local"

C22_Witness ==
  \E c \in Conn :
    /\ LocalOriginated(c)
    /\ HasOp("SSL_shutdown", c, "remote")
    /\ mem[c] = "freed"
    /\ \E d \in Conn : mem[d] = "live"

(* The event_add calls of the last action that register a parent-death     *)
(* detector.                                                               *)
Detectors ==
  {trace[i].side : i \in {j \in DOMAIN trace :
       /\ trace[j].op = "event_add"
       /\ trace[j].side \in {"shutdown_cb SIGUSR1", "check_parent_kqueue", "check_parent"}}}

DetectorAdds ==
  Cardinality({j \in DOMAIN trace :
       /\ trace[j].op = "event_add"
       /\ trace[j].side \in {"shutdown_cb SIGUSR1", "check_parent_kqueue", "check_parent"}})

(* C23: main registers exactly one parent-death detector: the signal one   *)
(* when prctl succeeded, the kqueue one when kqueue and kevent succeeded,   *)
(* the 5 second poll if and only if neither was enabled; whatever the       *)
(* outcome main goes on to the event loop.                                  *)
C23_OneParentDeathDetector ==
  /\ pc = "loop" => watcher \in {"signal", "kqueue", "poll"}
  /\ HasOp("event_add", 0, "shutdown_cb SIGTERM") =>
       /\ DetectorAdds = 1
       /\ HasOp("prctl", 0, "ok") => Detectors = {"shutdown_cb SIGUSR1"}
       /\ HasOp("kevent", 0, "ok") => Detectors = {"check_parent_kqueue"}
       /\ Detectors = {"check_parent"} <=>
            ~(HasOp("prctl", 0, "ok") \/ HasOp("kevent", 0, "ok"))
       /\ watcher = (IF Detectors = {"shutdown_cb SIGUSR1"} THEN "signal"
                     ELSE IF Detectors = {"check_parent_kqueue"} THEN "kqueue"
                     ELSE "poll")
       /\ pc = "loop"
       /\ status = -1

C23_Witness ==
  /\ HasOp("kevent", 0, "failed")
  /\ Detectors = {"check_parent"}
  /\ watcher = "poll"
  /\ pc = "loop"

(* C24: while the loop runs, a connection in HOSTNAME_LOOKUP has the       *)
(* resolver's callback still to come, once: nothing else moves it on to    *)
(* LOCAL_CONNECTING, so without it the connection stays in                 *)
(* HOSTNAME_LOOKUP for as long as its peer keeps the connection open.      *)
C24_LookupAlwaysCompletes ==
  \A c \in Conn :
    (pc = "loop" /\ loop_end = "none" /\ mem[c] = "live"
       /\ conn[c].state = C_HOSTNAME_LOOKUP) =>
      /\ dns[c] = "inflight"
      /\ conn[c].resolver_req

(* address_resolved went past its cancel test for c in the last callback. *)
Resolved(c) == HasOp("bufferevent_socket_new", c, "local")

(* address_resolved went past its cancel test in the last callback. *)
ResolvedStep == \E i \in DOMAIN trace : trace[i].op = "bufferevent_socket_new"

(* C25: remote_host and remote_ip are both unset or both set; they are set *)
(* by the resolver's callback only, which finds them unset, and once set   *)
(* they keep their values for as long as the connection lives.             *)
C25_RemoteNamesAssignedOnce ==
  /\ [](\A c \in Conn :
          mem[c] = "live" =>
            (conn[c].remote_host = "NULL" <=> conn[c].remote_ip = "NULL"))
  /\ [][/\ ResolvedStep' =>
            \A c \in Conn :
              (mem[c] = "live" /\ Resolved(c)' /\ trace' # trace) =>
                /\ conn[c].remote_host = "NULL" /\ conn[c].remote_ip = "NULL"
                /\ conn'[c].remote_host # "NULL" /\ conn'[c].remote_ip # "NULL"
        /\ conn' # conn =>
            \A c \in Conn :
              (mem[c] = "live" /\ mem'[c] = "live") =>
                /\ conn[c].remote_host # "NULL" =>
                     conn'[c].remote_host = conn[c].remote_host
                /\ conn[c].remote_ip # "NULL" =>
                     conn'[c].remote_ip = conn[c].remote_ip
                /\ conn'[c].remote_host # conn[c].remote_host => Resolved(c)'
                /\ conn'[c].remote_ip # conn[c].remote_ip => Resolved(c)']_vars

C25_Witness ==
  \E c \in Conn :
    /\ mem[c] = "live"
    /\ conn[c].state = C_ESTABLISHED
    /\ conn[c].remote_host = "host"
    /\ conn[c].remote_ip = "ip"
    /\ HasOp("bufferevent_write", c, "local")

(* The last callback was called for a timeout event. *)
TimeoutStep ==
  \E i \in DOMAIN trace : trace[i].op \in {"handshake_timeout", "timeout_ignored"}

(* C26: the handshake timeout is set on the remote transport by the        *)
(* callback that accepts the connection and cleared by the callback that   *)
(* sees the handshake complete, before the state leaves SSL_CONNECTING;    *)
(* the timeout branch tears a connection down from SSL_CONNECTING only,    *)
(* and a timeout event for a connection in HOSTNAME_LOOKUP,                *)
(* LOCAL_CONNECTING or ESTABLISHED changes nothing.                        *)
C26_HandshakeTimeoutOnlyWhileConnecting ==
  /\ [](\A c \in Conn :
          /\ (HasOp("alloc_conn", c, "") /\ mem[c] = "live") =>
               /\ conn[c].remote_bev = "handshaking"
               /\ trace[Len(trace)] = Op("set_handshake_timeout", c, "remote")
          /\ (\E i \in DOMAIN trace :
                trace[i].op = "state" /\ trace[i].c = c
                  /\ trace[i].from = C_SSL_CONNECTING
                  /\ trace[i].to = C_HOSTNAME_LOOKUP) =>
               /\ 0 < Pos(Op("clear_timeouts", c, "remote"))
               /\ Pos(Op("clear_timeouts", c, "remote")) <
                    Pos(StateOp(c, C_SSL_CONNECTING, C_HOSTNAME_LOOKUP))
          /\ HasOp("handshake_timeout", c, "remote") =>
               /\ 0 < Pos(StateOp(c, C_SSL_CONNECTING, C_SHUTTINGDOWN))
               /\ ~HasOp("clear_timeouts", c, "remote"))
  /\ [][TimeoutStep' => \A c \in Conn :
          (/\ mem[c] = "live"
           /\ conn[c].state \in {C_HOSTNAME_LOOKUP, C_LOCAL_CONNECTING, C_ESTABLISHED}
           /\ TimeoutReported(c)') =>
            /\ ~HasOp("handshake_timeout", c, "remote")'
            /\ UNCHANGED heapvars
            /\ UNCHANGED <<pc, loop_end, status, listener, watcher>>]_vars

C26_Witness ==
  \E c \in Conn :
    /\ trace = <<Op("timeout_ignored", c, "")>>
    /\ mem[c] = "live"
    /\ conn[c].state = C_HOSTNAME_LOOKUP
    /\ dns[c] = "inflight"

(* The connections a callback finds in the registry. *)
AtRest == {c \in Conn : mem[c] = "live" /\ c \in Registered}

NamesSet(c) == conn[c].remote_host # "NULL" /\ conn[c].remote_ip # "NULL"
NamesUnset(c) == conn[c].remote_host = "NULL" /\ conn[c].remote_ip = "NULL"

(* C27 as stated: for a registered connection the local transport is       *)
(* absent in SSL_CONNECTING and HOSTNAME_LOOKUP and present in             *)
(* LOCAL_CONNECTING and ESTABLISHED, a resolver request is held only in    *)
(* HOSTNAME_LOOKUP, the names are unset before LOCAL_CONNECTING and set    *)
(* from it on, and the remote transport is present before SHUTTING_DOWN.   *)
C27_SlotsAgreeWithState ==
  \A c \in AtRest :
    /\ conn[c].state \in {C_SSL_CONNECTING, C_HOSTNAME_LOOKUP} =>
         conn[c].local_bev = "NULL" /\ NamesUnset(c)
    /\ conn[c].state \in {C_LOCAL_CONNECTING, C_ESTABLISHED} =>
         conn[c].local_bev # "NULL" /\ NamesSet(c)
    /\ conn[c].resolver_req => conn[c].state = C_HOSTNAME_LOOKUP
    /\ conn[c].state # C_SHUTTINGDOWN => conn[c].remote_bev # "NULL"

(* C27 amended: as stated, except that a resolver request is held in       *)
(* HOSTNAME_LOOKUP or in SHUTTING_DOWN: close_connections marks a          *)
(* connection whose lookup is in flight SHUTTING_DOWN and leaves it        *)
(* registered with its request and its transports.                         *)
C27_SlotsAgreeWithStateOrMarked ==
  \A c \in AtRest :
    /\ conn[c].state \in {C_SSL_CONNECTING, C_HOSTNAME_LOOKUP} =>
         conn[c].local_bev = "NULL" /\ NamesUnset(c)
    /\ conn[c].state \in {C_LOCAL_CONNECTING, C_ESTABLISHED} =>
         conn[c].local_bev # "NULL" /\ NamesSet(c) /\ ~conn[c].resolver_req
    /\ conn[c].state = C_SSL_CONNECTING => ~conn[c].resolver_req
    /\ conn[c].resolver_req => conn[c].state \in {C_HOSTNAME_LOOKUP, C_SHUTTINGDOWN}
    /\ conn[c].state # C_SHUTTINGDOWN => conn[c].remote_bev # "NULL"
    /\ conn[c].state = C_SHUTTINGDOWN =>
         /\ loop_end # "none"
         /\ conn[c].remote_bev # "NULL"
         /\ conn[c].resolver_req => conn[c].local_bev = "NULL" /\ NamesUnset(c)
         /\ conn[c].local_bev # "NULL" => NamesSet(c)

C27_Witness ==
  \E c \in AtRest :
    /\ conn[c].state = C_SHUTTINGDOWN
    /\ conn[c].resolver_req
    /\ dns[c] = "inflight"
    /\ HasOp("shutdown_cb", SIGTERM, "flush_local")

(* The heap pipe_cb was called on. *)
PipeBefore == PipeHeap(pipe.state, pipe.from, pipe.dest, pipe.other)

(* C28: when pipe_cb has read bytes and the other transport is absent or   *)
(* the write to it fails, the bytes are gone (read from the source, not    *)
(* written anywhere) and nothing else has happened: no field of any        *)
(* connection, no registry entry and no memory has changed, and nothing   *)
(* was freed.                                                              *)
C28_UndeliverableBytesDropped ==
  (pipe # Idle /\ pipe.called /\ pipe.len > 0
     /\ (pipe.dest = "NULL" \/ ~pipe.written)) =>
    /\ pipe.h.trace[1] = Op("bufferevent_read", 1, pipe.from)
    /\ pipe.h.trace =
         IF pipe.dest = "NULL"
           THEN <<Op("bufferevent_read", 1, pipe.from)>>
           ELSE <<Op("bufferevent_read", 1, pipe.from),
                  Op("bufferevent_write", 1, Opposite(pipe.from))>>
    /\ pipe.h.conn = PipeBefore.conn
    /\ pipe.h.connections = PipeBefore.connections
    /\ pipe.h.mem = PipeBefore.mem
    /\ pipe.h.dns = PipeBefore.dns
    /\ pipe.h.hist = PipeBefore.hist
    /\ pipe.h.conn[1].state = pipe.state
    /\ InRegistry(pipe.h, 1)

C28_Witness ==
  /\ pipe # Idle
  /\ pipe.called
  /\ pipe.len > 0
  /\ pipe.dest = "open"
  /\ ~pipe.written
  /\ pipe.other = "relaying"
  /\ pipe.state = C_ESTABLISHED
  /\ pipe.h.mem[1] = "live"

(* Operations of the step that use the resolver. *)
ResolverUses == {"evdns_cancel_request", "cancel_on_freed_resolver"}

(* C29: in the final cleanup the resolver is not used once                 *)
(* evdns_base_free has released it: no request is cancelled, on the live   *)
(* resolver or on its freed memory, after the evdns_base_free of the step. *)
C29_ResolverNotUsedAfterFree ==
  \A i, j \in DOMAIN trace :
    (trace[i].op = "evdns_base_free" /\ i < j) => trace[j].op \notin ResolverUses

(* The nodes of the list, from `connections' along next. *)
Chain == Walk(reg)

(* C30: after any sequence of insertions at the head and of delete_conn    *)
(* calls (of the head, of a middle node, of the tail) the registry is a    *)
(* well-formed doubly-linked list: the prev of the head is NULL, the prev  *)
(* of every node's successor is the node, the next of every node's         *)
(* predecessor is the node, and following next from the head meets no node *)
(* twice and ends at NULL.                                                 *)
C30_RegistryWellFormed ==
  /\ reg.head # 0 => reg.prev[reg.head] = 0
  /\ \A i \in DOMAIN Chain :
       LET n == Chain[i]
       IN  /\ reg.next[n] # 0 => reg.prev[reg.next[n]] = n
           /\ reg.prev[n] # 0 => reg.next[reg.prev[n]] = n
           /\ reg.prev[n] = 0 => n = reg.head
  /\ Len(Chain) <= MaxNodes
  /\ \A i, j \in DOMAIN Chain : Chain[i] = Chain[j] => i = j
  /\ Chain # <<>> => reg.next[Chain[Len(Chain)]] = 0

(* delete_conn has just removed the middle node of a list of three. *)
C30_Witness ==
  /\ reg.last.op = "delete_conn"
  /\ Len(reg.last.before) = 3
  /\ reg.last.c = reg.last.before[2]
  /\ Chain = <<reg.last.before[1], reg.last.before[3]>>
  /\ reg.prev[Chain[2]] = Chain[1]

(***************************************************************************)
(* The system queue.                                                       *)
(***************************************************************************)

SqQueue == SqWalk(sq)

SqRange(seq) == {seq[i] : i \in DOMAIN seq}

(* The entries that are in the queue before and after a step keep their    *)
(* order.                                                                  *)
SqOrderKept ==
  LET old == SqQueue
      now == SqQueue'
      olds == SqRange(old)
      nows == SqRange(now)
  IN  SelectSeq(old, LAMBDA n : n \in nows) = SelectSeq(now, LAMBDA n : n \in olds)

(* C31: the queue from sq_head on is ordered by non-decreasing `when' and  *)
(* holds exactly the entries that exist, each once; no call changes the    *)
(* order of the entries it leaves in the queue, and a registration puts    *)
(* the new entry behind every entry whose `when' is less than or equal to  *)
(* its own and in front of every entry whose `when' is greater, so that    *)
(* entries of equal `when' stay in the order of their registration.        *)
C31_QueueOrderedByWhen ==
  /\ [](LET now == SqQueue
        IN  /\ \A i, j \in DOMAIN now :
                 /\ i < j => sq.when[now[i]] <= sq.when[now[j]]
                 /\ now[i] = now[j] => i = j
            /\ \A n \in SqNode : sq.alive[n] <=> n \in SqRange(now))
  /\ [][/\ (sq'.head # sq.head \/ sq'.next # sq.next) => SqOrderKept
        /\ sq'.last.op \in {"sq_register", "sq_register_in_msec"} =>
             LET new == sq'.last.p
                 at == SqPos(sq', new)
                 old == SqQueue
                 now == SqQueue'
             IN  /\ at > 0
                 /\ new \notin SqRange(old)
                 /\ Len(now) = Len(old) + 1
                 /\ \A i \in DOMAIN now :
                      /\ i < at => sq'.when[now[i]] <= sq'.when[new]
                      /\ i > at => sq'.when[now[i]] > sq'.when[new]
                 /\ \A n \in SqRange(old) : sq'.when[n] = sq.when[n]]_vars

(* A registration has gone between an older entry of the same time and an  *)
(* entry of a later time.                                                  *)
C31_Witness ==
  /\ sq.last.op = "sq_register"
  /\ Len(SqQueue) = 3
  /\ sq.last.pos = 2
  /\ sq.when[SqQueue[1]] = sq.when[SqQueue[2]]
  /\ sq.when[SqQueue[3]] > sq.when[SqQueue[2]]

(* C32: sq_run_one returns true exactly when the head entry exists and is  *)
(* due; it then runs that entry and no other: the entry's time is not      *)
(* later than the clock, the entry is out of the queue when its function   *)
(* is called and freed when sq_run_one returns, so it is not run again,    *)
(* whatever its function registers or cancels.  Otherwise it changes       *)
(* nothing.  sq_run_all leaves no entry that is due.                       *)
C32_RunOneRunsDueHeadOnce ==
  /\ []((sq.last.op = "sq_run_one" /\ sq.last.ret = 1) =>
          /\ sq.last.w <= sq.now
          /\ ~sq.last.linked
          /\ ~sq.alive[sq.last.p]
          /\ sq.last.p \notin SqRange(SqQueue))
  /\ [][/\ sq'.last.op = "sq_run_one" =>
             /\ sq'.last.ret = 1 <=> SqDue(sq)
             /\ sq'.last.ret = 1 =>
                  /\ sq'.last.p = sq.head
                  /\ sq'.last.w = sq.when[sq.head]
                  /\ sq'.last.cb = "none" => SqQueue' = Tail(SqQueue)
                  /\ sq'.last.cb = "register" =>
                       /\ Len(SqQueue') = Len(SqQueue)
                       /\ SqRange(SqQueue) \ SqRange(SqQueue') = {sq.head}
                  /\ sq'.last.cb = "cancel" =>
                       /\ Len(SqQueue') \in {Len(SqQueue) - 1, Len(SqQueue) - 2}
                       /\ SqRange(SqQueue') \subseteq SqRange(Tail(SqQueue))
             /\ sq'.last.ret = 0 =>
                  /\ SqQueue' = SqQueue
                  /\ sq'.alive = sq.alive /\ sq'.when = sq.when
        /\ sq'.last.op = "sq_run_all" =>
             /\ ~SqDue(sq')
             /\ sq'.last.ret = 1 <=> SqDue(sq)
             /\ \A n \in SqRange(SqQueue) \ SqRange(SqQueue') : sq.when[n] <= sq.now
             /\ SqOrderKept]_vars

(* The function of the entry that ran has cancelled another entry, and an  *)
(* entry that is not due yet is left.                                      *)
C32_Witness ==
  /\ sq.last.op = "sq_run_one"
  /\ sq.last.ret = 1
  /\ sq.last.cb = "cancel"
  /\ Len(SqQueue) = 1
  /\ sq.when[sq.head] > sq.now
  /\ Cardinality({n \in SqNode : sq.alive[n]}) = 1

(* C33: sq_cancel of an entry that is in the queue takes that entry out    *)
(* and frees it, and every other entry stays, in its place and with its    *)
(* time; sq_cancel of NULL or of a pointer that is not in the queue        *)
(* changes nothing and frees nothing.  Only the head of the queue is ever  *)
(* run, so a cancelled entry is not.                                       *)
C33_CancelRemovesExactlyThatEntry ==
  [][sq'.last.op = "sq_cancel" =>
       LET p == sq'.last.p
       IN  IF p \in SqRange(SqQueue)
             THEN /\ SqQueue' = SelectSeq(SqQueue, LAMBDA n : n # p)
                  /\ Len(SqQueue') = Len(SqQueue) - 1
                  /\ ~sq'.alive[p]
                  /\ \A n \in SqNode \ {p} :
                       /\ sq'.alive[n] = sq.alive[n]
                       /\ sq'.when[n] = sq.when[n]
                       /\ sq'.fun[n] = sq.fun[n]
             ELSE /\ SqQueue' = SqQueue
                  /\ sq'.head = sq.head /\ sq'.next = sq.next
                  /\ sq'.alive = sq.alive /\ sq'.when = sq.when
                  /\ sq'.fun = sq.fun]_vars

(* The middle entry of three has been cancelled. *)
C33_Witness ==
  /\ sq.last.op = "sq_cancel"
  /\ sq.last.pos = 2
  /\ Len(SqQueue) = 2
  /\ ~sq.alive[sq.last.p]
  /\ sq.last.p \notin SqRange(SqQueue)

(* The entries of the loop that are pending. *)
SqLoopPending == {n \in SqNode : sq.alive[n] /\ sq.fun[n] = "sq_loop_fun"}

(* C34: between the calls there is exactly one pending entry of the loop;  *)
(* each run of the loop is a run of that entry, not before its time, and   *)
(* registers the next one for the clock plus the period of the loop,       *)
(* whatever the function of the loop returned; and while the clock         *)
(* advances and sq_run_one is called, a pending entry of the loop whose    *)
(* time the clock can reach is run, so the function runs again and again.  *)
C34_LoopReRegistersAndRuns ==
  /\ [](/\ Cardinality(SqLoopPending) = 1
        /\ SqLoopPending \subseteq SqRange(SqQueue))
  /\ [][(sq'.last.op = "sq_run_one" /\ sq'.last.loop) =>
          /\ sq.fun[sq.head] = "sq_loop_fun"
          /\ sq'.last.w = sq.when[sq.head]
          /\ sq'.last.w <= sq.now
          /\ \E n \in SqNode :
               /\ n \in SqRange(SqQueue')
               /\ n # sq.head
               /\ sq'.fun[n] = "sq_loop_fun"
               /\ sq'.msecs[n] = sq.msecs[sq.head]
               /\ sq'.when[n] = U64(sq.now + sq.msecs[sq.head])]_vars
  /\ (\E n \in SqLoopPending : sq.when[n] <= MaxTime)
       ~> (sq.last.op = "sq_run_one" /\ sq.last.loop)

(* The loop has run for the second time, its function returned false, and  *)
(* the third run is pending.                                               *)
C34_Witness ==
  /\ sq.last.op = "sq_run_one"
  /\ sq.last.loop
  /\ ~sq.last.r
  /\ sq.last.w = 2
  /\ sq.now = 2
  /\ \E n \in SqLoopPending : sq.when[n] = 3 /\ sq.msecs[n] = 1

(* C35: sq_msecs_till_next returns the time left until the head entry is   *)
(* due, 0 if it is due or overdue, and 500 for an empty queue.             *)
C35_MsecsTillNextNeverWraps ==
  sq.last.op = "sq_msecs_till_next" =>
    sq.last.ret = IF sq.head = 0 THEN 500
                  ELSE IF sq.when[sq.head] > sq.now THEN sq.when[sq.head] - sq.now
                  ELSE 0

(***************************************************************************)
(* The slab allocator.                                                     *)
(***************************************************************************)

SlabPages == {slab.slabs[i] : i \in DOMAIN slab.slabs}

SlabLiveOn(sl, p) == {o \in sl.live : o[1] = p}

(* C36: slab_malloc returns no object that a caller still holds; on every  *)
(* page of the list nalloced + nfree is items_per_page, nalloced is the    *)
(* number of live objects of the page and nfree the length of its free     *)
(* list, which holds each free object of the page once and no live one.    *)
C36_SlabCountersExact ==
  /\ (slab.last.op = "slab_malloc" /\ slab.last.obj # NullObj) =>
       /\ slab.last.fresh
       /\ slab.last.obj \in slab.live
  /\ \A i, j \in DOMAIN slab.slabs : slab.slabs[i] = slab.slabs[j] => i = j
  /\ \A p \in SlabPages :
       LET page == slab.page[p]
       IN  /\ page.nalloced + page.nfree = slab.items_per_page
           /\ page.nalloced = Cardinality(SlabLiveOn(slab, p))
           /\ page.nfree = Len(page.freelist)
           /\ \A i, j \in DOMAIN page.freelist :
                /\ page.freelist[i] \in 1..slab.items_per_page
                /\ <<p, page.freelist[i]>> \notin slab.live
                /\ page.freelist[i] = page.freelist[j] => i = j

(* slab_malloc has returned the last free object of the first of two       *)
(* pages, an object that had been freed, while the second page has room.   *)
C36_Witness ==
  /\ slab.last.op = "slab_malloc"
  /\ slab.last.fresh
  /\ Len(slab.slabs) = 2
  /\ slab.last.obj = <<slab.slabs[1], slab.items_per_page>>
  /\ slab.page[slab.slabs[1]].nfree = 0
  /\ slab.page[slab.slabs[1]].nalloced = ItemsPerPage
  /\ slab.page[slab.slabs[2]].nfree > 0

(* C37: a slab_free of the last live object of a page unlinks and frees    *)
(* the page, unless keep_last_empty is set and the page is the only one;   *)
(* any other slab_free leaves the list alone; with keep_last_empty unset   *)
(* no page with nalloced = 0 is in the list when slab_free returns; and    *)
(* the pages that stay keep their order.                                   *)
C37_EmptyPagesFreed ==
  [][(slab'.last.op = "slab_free" /\ slab'.live # slab.live /\ slab.items_per_page > 0) =>
       LET page == slab'.last.obj[1]
       IN  /\ IF SlabLiveOn(slab, page) = {slab'.last.obj}
                   /\ ~(slab.keep_last_empty /\ slab.slabs = <<page>>)
                THEN /\ slab'.slabs = SelectSeq(slab.slabs, LAMBDA q : q # page)
                     /\ Len(slab'.slabs) = Len(slab.slabs) - 1
                     /\ slab'.page[page] = NoPage
                ELSE slab'.slabs = slab.slabs
           /\ ~slab.keep_last_empty =>
                \A i \in DOMAIN slab'.slabs : slab'.page[slab'.slabs[i]].nalloced # 0]_vars

(* C38: the item_size that slab_create stores is at least the size of a    *)
(* pointer, at least the size asked for, and a multiple of the size of a   *)
(* pointer.                                                                *)
C38_ItemSizeAligned ==
  slab # NoSlab =>
    /\ slab.item_size >= SizeofVoidP
    /\ slab.item_size >= slab.requested
    /\ slab.item_size % SizeofVoidP = 0

(***************************************************************************)
(* The warning lists.                                                      *)
(***************************************************************************)

(* C39: parse_warnings returns -1 exactly when the list is not empty and   *)
(* none of its names is the name of a known warning, wherever in the list  *)
(* the names stand; and after a do_warnings with such a list the bitmask   *)
(* of the object is what it was.                                           *)
C39_UnknownListLeavesWarnings ==
  LET matched == \E i \in DOMAIN warn.last.arg.tokens : WarnKnown(warn.last.arg.tokens[i])
  IN  /\ warn.last.op \in {"parse_warnings", "do_warnings"} =>
           (warn.last.ret = W_MINUS_ONE <=> (~warn.last.arg.empty /\ ~matched))
      /\ (warn.last.op = "do_warnings" /\ ~warn.last.arg.empty /\ ~matched) =>
           warn.mask = warn.last.old

=============================================================================
